---- MODULE Spec2Model ----
(***************************************************************************)
(* One tracked ingestion run of the open-data pipelines:                   *)
(*   metadata_tracker (data_processors/utils/metadata_logger.py) wrapped   *)
(*   around either                                                         *)
(*     proc = "nhs": process_nhs_prescriptions -> process_streaming_csv -> *)
(*                   insert_into_motherduck, then create_aggregated_table  *)
(*                   (data_processors/nhs_english_prescriptions.py; the    *)
(*                   batch loop of bduk_premises.process_streaming_data is *)
(*                   the same loop without a tracker), or                  *)
(*     proc = "dft": process_single_ods_file -> process_ods_file ->        *)
(*                   insert_into_motherduck                                *)
(*                   (data_processors/dft_road_stats.py).                  *)
(* The file is abstracted to its number of well-formed data rows; a batch  *)
(* is its ordinal number and its row count.  An exception is its class     *)
(* name and the length of its text.                                        *)
(***************************************************************************)
EXTENDS Integers, Sequences, FiniteSets, TLC

\* ---- bounds of the model ------------------------------------------------
MaxRows == 4
MaxBatchSize == 2
DeclaredSize == 7
LongErr == 1001

\* ---- program constants --------------------------------------------------
max_retries == 3
base_delay == 3
error_cap == 1000

VARIABLES
    proc,          \* which processor body runs inside the tracker
    conn,          \* TRUE: a connection object, FALSE: None ("not conn")
    nrows,         \* well-formed data rows in the source file
    batch_size,    \* rows per batch
    content_length,\* size declared by the download (0: none declared)
    pc,            \* position of the run
    tracker,       \* MetadataTracker fields
    log_data,      \* the record metadata_tracker builds
    pending,       \* exception in flight (NoExc: none)
    blockResult,   \* how the tracked block ended
    callerResult,  \* what the caller of the with-statement observes
    metadata_log,  \* rows of the metadata log table
    persistCalls,  \* number of calls of _insert_metadata_log in this run
    persistFailed, \* insert_table raised inside _insert_metadata_log
    table,         \* rows of the target table, one entry per appended batch
    consumed,      \* data rows already handed out in batches
    total_rows,    \* process_streaming_csv.total_rows / process_ods_file.rows_processed
    batch_count,   \* ordinal of the current batch
    errors,        \* process_streaming_csv.errors
    attempt,       \* insert_into_motherduck loop variable
    waits,         \* time.sleep arguments of the current loader call
    outcomes,      \* outcome of each attempt of the current loader call
    loadResult,    \* "idle", "running", "True", "False", "raise"
    attempted,     \* batches handed to the loader, in order
    gaveUp         \* batches on which the loader raised

\* One call of a bulk loader on its own (specification SpecLoader) and one
\* streaming CSV reader on its own (specifications SpecAssembler, SpecReader).
VARIABLES
    loader,        \* the locals of one loader call and the connection's staging
    reader,        \* the locals of one reader and the source it reads
    zip,           \* one reader of a streamed ZIP archive (specification SpecZip)
    store,         \* target tables behind insert_table (specification SpecTable)
    column,        \* one column under type cleaning (specification SpecCoerce)
    s58,           \* Section 58 runs and their two tables (specification SpecS58)
    aggr,          \* staging and aggregated table of one NHS file (SpecAggregate)
    hdr            \* one header under validation and a positional load (SpecHeader)

more == <<s58, aggr, hdr>>

rest == <<zip, store, column, more>>

units == <<loader, reader, rest>>

runVars == <<proc, conn, nrows, batch_size, content_length, pc, tracker, log_data,
             pending, blockResult, callerResult, metadata_log, persistCalls,
             persistFailed, table, consumed, total_rows, batch_count, errors,
             attempt, waits, outcomes, loadResult, attempted, gaveUp>>

vars == <<runVars, units>>

LoaderIdle ==
    [variant |-> "none", conn |-> FALSE, kind |-> "none", pc |-> "idle",
     attempt |-> 0, registered |-> FALSE, waits |-> <<>>, outcomes |-> <<>>,
     result |-> "none", raised |-> 0, appends |-> 0, after |-> "none",
     release |-> "ok", release_raised |-> FALSE]

ReaderIdle ==
    [level |-> "none", policy |-> "strict", gets |-> 0, response |-> "none",
     lines |-> <<>>, content |-> <<>>, unterminated |-> FALSE,
     batch_size |-> 1, expected_columns |-> {}, pos |-> 0,
     partial_line |-> <<>>, header |-> <<>>, row_buffer |-> <<>>,
     batches |-> <<>>, lineno |-> 0,
     validation |-> [checked |-> FALSE, valid |-> FALSE, missing |-> {},
                     extra |-> {}],
     discarded |-> {}, status |-> "idle"]

ZipIdle == [variant |-> "none", pc |-> "idle"]

StoreIdle == [processor_type |-> "none", pc |-> "idle"]

ColumnIdle == [cleaner |-> "none", pc |-> "idle"]

S58Idle == [pc |-> "idle"]

AggrIdle == [pc |-> "idle"]

HdrIdle == [pc |-> "idle"]

MoreIdle == s58 = S58Idle /\ aggr = AggrIdle /\ hdr = HdrIdle

RestIdle ==
    zip = ZipIdle /\ store = StoreIdle /\ column = ColumnIdle /\ MoreIdle

inputs == <<proc, conn, nrows, batch_size, content_length>>
loaderVars == <<attempt, waits, outcomes, loadResult>>
trackerOut == <<callerResult, metadata_log, persistCalls, persistFailed>>

\* ---- helpers ------------------------------------------------------------
Min(a, b) == IF a < b THEN a ELSE b

RECURSIVE Pow2(_)
Pow2(n) == IF n = 0 THEN 1 ELSE 2 * Pow2(n - 1)

RECURSIVE SumRows(_)
SumRows(s) == IF s = <<>> THEN 0 ELSE Head(s).rows + SumRows(Tail(s))

NoExc == [exc |-> "none", len |-> 0]
Exc(name, n) == [exc |-> name, len |-> n]
ErrLens == {3, error_cap, LongErr}

\* str(e)[:1000]
TruncateNone(e) == e
Truncate(e) == [exc |-> e.exc, len |-> Min(e.len, error_cap)]

\* (2**attempt) * base_delay
WaitTimeShifted(a) == Pow2(a + 1) * base_delay
WaitTime(a) == Pow2(a) * base_delay

\* number of rows of the next batch: the reader yields at batch_size and
\* flushes the remainder at end of data
NextBatchRows == Min(batch_size, nrows - consumed)

\* insert_into_motherduck as a whole, given how many leading attempts fail
InsertOutcome(c, fails) ==
    IF ~c THEN "False"
    ELSE IF fails < max_retries THEN "True"
    ELSE "raise"

UrlError == [kind |-> "url", batch |-> 0]
BatchError(k) == [kind |-> "batch", batch |-> k]

BlockPcs == {"open", "parse", "read", "load", "loaded", "aggregate"}

\* ---- initial state ------------------------------------------------------
Init ==
    /\ proc \in {"nhs", "dft"}
    /\ conn \in BOOLEAN
    /\ nrows \in 0..MaxRows
    /\ batch_size \in 1..MaxBatchSize
    /\ content_length \in {0, DeclaredSize}
    /\ pc = "init"
    /\ tracker = [rows_processed |-> 0, file_size_bytes |-> 0]
    /\ log_data = [status |-> "none", end_time |-> "None",
                   duration_seconds |-> "None", rows_processed |-> 0,
                   file_size_bytes |-> 0, error_message |-> NoExc]
    /\ pending = NoExc
    /\ blockResult = [kind |-> "running", exc |-> NoExc]
    /\ callerResult = [kind |-> "none", exc |-> NoExc]
    /\ metadata_log = <<>>
    /\ persistCalls = 0
    /\ persistFailed = FALSE
    /\ table = <<>>
    /\ consumed = 0
    /\ total_rows = 0
    /\ batch_count = 0
    /\ errors = <<>>
    /\ attempt = 0
    /\ waits = <<>>
    /\ outcomes = <<>>
    /\ loadResult = "idle"
    /\ attempted = <<>>
    /\ gaveUp = {}
    /\ loader = LoaderIdle
    /\ reader = ReaderIdle
    /\ RestIdle

\* ---- metadata_tracker: entry ---------------------------------------------
TrackerEnter ==
    /\ pc = "init"
    /\ log_data' = [status |-> "STARTED", end_time |-> "None",
                    duration_seconds |-> "None", rows_processed |-> 0,
                    file_size_bytes |-> 0, error_message |-> NoExc]
    /\ tracker' = [rows_processed |-> 0, file_size_bytes |-> 0]
    /\ pc' = "open"
    /\ UNCHANGED <<units, inputs, pending, blockResult, trackerOut, table, consumed,
                   total_rows, batch_count, errors, loaderVars, attempted, gaveUp>>

\* ---- the tracked block: download ------------------------------------------
\* nhs: stream_csv_from_url up to tracker.set_file_size(total_size)
StreamOpen ==
    /\ pc = "open"
    /\ proc = "nhs"
    /\ tracker' = [tracker EXCEPT !.file_size_bytes = content_length]
    /\ pc' = "read"
    /\ UNCHANGED <<units, inputs, log_data, pending, blockResult, trackerOut, table,
                   consumed, total_rows, batch_count, errors, loaderVars,
                   attempted, gaveUp>>

\* dft: process_single_ods_file streams the file to a temp file and records
\* the bytes written
DftDownload ==
    /\ pc = "open"
    /\ proc = "dft"
    /\ tracker' = [tracker EXCEPT !.file_size_bytes = DeclaredSize]
    /\ pc' = "parse"
    /\ UNCHANGED <<units, inputs, log_data, pending, blockResult, trackerOut, table,
                   consumed, total_rows, batch_count, errors, loaderVars,
                   attempted, gaveUp>>

\* dft: process_ods_file reads the sheet and records len(df_clean) before
\* any batch is loaded
DftParse ==
    /\ pc = "parse"
    /\ tracker' = [tracker EXCEPT !.rows_processed = nrows]
    /\ total_rows' = 0
    /\ pc' = "read"
    /\ UNCHANGED <<units, inputs, log_data, pending, blockResult, trackerOut, table,
                   consumed, batch_count, errors, loaderVars, attempted, gaveUp>>

\* ---- the tracked block: batches -------------------------------------------
\* the reader yields the next batch and the loop calls the loader on it
NextBatch ==
    /\ pc = "read"
    /\ consumed < nrows
    /\ batch_count' = batch_count + 1
    /\ consumed' = consumed + NextBatchRows
    /\ attempted' = Append(attempted, [batch |-> batch_count + 1,
                                       rows |-> NextBatchRows])
    /\ attempt' = 0
    /\ waits' = <<>>
    /\ outcomes' = <<>>
    /\ loadResult' = "running"
    /\ pc' = "load"
    /\ UNCHANGED <<units, inputs, tracker, log_data, pending, blockResult, trackerOut,
                   table, total_rows, errors, gaveUp>>

CurrentBatch == attempted[Len(attempted)]

\* insert_into_motherduck: "if not conn: return False"
LoadNoConn ==
    /\ pc = "load"
    /\ ~conn
    /\ loadResult' = "False"
    /\ pc' = "loaded"
    /\ UNCHANGED <<units, inputs, tracker, log_data, pending, blockResult, trackerOut,
                   table, consumed, total_rows, batch_count, errors, attempt,
                   waits, outcomes, attempted, gaveUp>>

\* a variant that falls out of the try block without returning
AttemptOkNoReturn ==
    /\ pc = "load"
    /\ conn
    /\ table' = Append(table, CurrentBatch)
    /\ outcomes' = Append(outcomes, "ok")
    /\ IF attempt < max_retries - 1
       THEN /\ attempt' = attempt + 1
            /\ UNCHANGED <<loadResult, pc>>
       ELSE /\ loadResult' = "False"
            /\ pc' = "loaded"
            /\ UNCHANGED attempt
    /\ UNCHANGED <<units, inputs, tracker, log_data, pending, blockResult, trackerOut,
                   consumed, total_rows, batch_count, errors, waits,
                   attempted, gaveUp>>

\* one attempt: register, INSERT ... SELECT succeeds, return True
AttemptOk ==
    /\ pc = "load"
    /\ conn
    /\ table' = Append(table, CurrentBatch)
    /\ outcomes' = Append(outcomes, "ok")
    /\ loadResult' = "True"
    /\ pc' = "loaded"
    /\ UNCHANGED <<units, inputs, tracker, log_data, pending, blockResult, trackerOut,
                   consumed, total_rows, batch_count, errors, attempt, waits,
                   attempted, gaveUp>>

\* one attempt fails and attempt < max_retries - 1: sleep, next attempt
AttemptFailRetry ==
    /\ pc = "load"
    /\ conn
    /\ attempt < max_retries - 1
    /\ outcomes' = Append(outcomes, "err")
    /\ waits' = Append(waits, WaitTime(attempt))
    /\ attempt' = attempt + 1
    /\ UNCHANGED <<units, inputs, pc, tracker, log_data, pending, blockResult,
                   trackerOut, table, consumed, total_rows, batch_count,
                   errors, loadResult, attempted, gaveUp>>

\* the last attempt fails: the error is re-raised
AttemptFailGiveUp ==
    /\ pc = "load"
    /\ conn
    /\ ~(attempt < max_retries - 1)
    /\ outcomes' = Append(outcomes, "err")
    /\ loadResult' = "raise"
    /\ \E n \in ErrLens : pending' = Exc("LoadError", n)
    /\ gaveUp' = gaveUp \cup {batch_count}
    /\ pc' = "loaded"
    /\ UNCHANGED <<units, inputs, tracker, log_data, blockResult, trackerOut, table,
                   consumed, total_rows, batch_count, errors, attempt, waits,
                   attempted>>

\* a variant of the nhs loop that does not record the failed batch
BatchDoneNhsUnlogged ==
    /\ pc = "loaded"
    /\ proc = "nhs"
    /\ IF loadResult = "raise"
       THEN /\ pending' = NoExc
            /\ UNCHANGED <<total_rows, errors>>
       ELSE /\ total_rows' = total_rows + CurrentBatch.rows
            /\ UNCHANGED <<errors, pending>>
    /\ pc' = "read"
    /\ UNCHANGED <<units, inputs, tracker, log_data, blockResult, trackerOut, table,
                   consumed, batch_count, loaderVars, attempted, gaveUp>>

\* a variant of the nhs loop that counts the rows of a batch it gave up on
BatchDoneNhsCountsFailed ==
    /\ pc = "loaded"
    /\ proc = "nhs"
    /\ IF loadResult = "raise"
       THEN /\ errors' = Append(errors, BatchError(batch_count))
            /\ pending' = NoExc
            /\ total_rows' = total_rows + CurrentBatch.rows
       ELSE /\ total_rows' = total_rows + CurrentBatch.rows
            /\ UNCHANGED <<errors, pending>>
    /\ pc' = "read"
    /\ UNCHANGED <<units, inputs, tracker, log_data, blockResult, trackerOut, table,
                   consumed, batch_count, loaderVars, attempted, gaveUp>>

\* process_streaming_csv after the loader call: the return value is not
\* looked at; an exception is caught and recorded per batch
BatchDoneNhs ==
    /\ pc = "loaded"
    /\ proc = "nhs"
    /\ IF loadResult = "raise"
       THEN /\ errors' = Append(errors, BatchError(batch_count))
            /\ pending' = NoExc
            /\ UNCHANGED total_rows
       ELSE /\ total_rows' = total_rows + CurrentBatch.rows
            /\ UNCHANGED <<errors, pending>>
    /\ pc' = "read"
    /\ UNCHANGED <<units, inputs, tracker, log_data, blockResult, trackerOut, table,
                   consumed, batch_count, loaderVars, attempted, gaveUp>>

\* process_ods_file after the loader call: the return value is not looked
\* at; an exception leaves the loop and the block
BatchDoneDft ==
    /\ pc = "loaded"
    /\ proc = "dft"
    /\ IF loadResult = "raise"
       THEN /\ blockResult' = [kind |-> "raised", exc |-> pending]
            /\ pc' = "except"
            /\ UNCHANGED total_rows
       ELSE /\ total_rows' = total_rows + CurrentBatch.rows
            /\ pc' = "read"
            /\ UNCHANGED blockResult
    /\ UNCHANGED <<units, inputs, tracker, log_data, pending, trackerOut, table,
                   consumed, batch_count, errors, loaderVars, attempted, gaveUp>>

\* the data is exhausted
StreamEnd ==
    /\ pc = "read"
    /\ consumed = nrows
    /\ IF proc = "nhs"
       THEN \* total_rows, file_size = process_streaming_csv(...), file_size
            \* being the local that stays 0; then set_rows_processed and
            \* set_file_size
            /\ tracker' = [rows_processed |-> total_rows, file_size_bytes |-> 0]
            /\ pc' = "aggregate"
            /\ UNCHANGED blockResult
       ELSE /\ blockResult' = [kind |-> "returned", exc |-> NoExc]
            /\ pc' = "success"
            /\ UNCHANGED tracker
    /\ UNCHANGED <<units, inputs, log_data, pending, trackerOut, table, consumed,
                   total_rows, batch_count, errors, loaderVars, attempted, gaveUp>>

\* nhs: create_aggregated_table succeeds and the block ends
AggregateOk ==
    /\ pc = "aggregate"
    /\ blockResult' = [kind |-> "returned", exc |-> NoExc]
    /\ pc' = "success"
    /\ UNCHANGED <<units, inputs, tracker, log_data, pending, trackerOut, table,
                   consumed, total_rows, batch_count, errors, loaderVars,
                   attempted, gaveUp>>

\* ---- the tracked block: failures ------------------------------------------
ExcAt(p) ==
    CASE p = "open" -> "ConnectionError"
      [] p = "parse" -> "ParseError"
      [] p = "read" -> "ValueError"
      [] OTHER -> "AggregateError"

RaisePcs == IF proc = "nhs" THEN {"open", "read", "aggregate"}
            ELSE {"open", "parse"}

\* an ordinary Exception escapes the block: the GET fails, the stream breaks
\* or the header is invalid, the sheet cannot be read, the aggregation fails
BlockRaises ==
    /\ pc \in RaisePcs
    /\ \E n \in ErrLens :
          /\ pending' = Exc(ExcAt(pc), n)
          /\ blockResult' = [kind |-> "raised", exc |-> Exc(ExcAt(pc), n)]
    /\ errors' = IF proc = "nhs" /\ pc \in {"open", "read"}
                 THEN Append(errors, UrlError) ELSE errors
    /\ pc' = "except"
    /\ UNCHANGED <<units, inputs, tracker, log_data, trackerOut, table, consumed,
                   total_rows, batch_count, loaderVars, attempted, gaveUp>>

\* the block is interrupted by something that is not an Exception
\* (KeyboardInterrupt, SystemExit): no "except Exception" clause sees it
Interrupt ==
    /\ pc \in BlockPcs
    /\ pending' = Exc("KeyboardInterrupt", 0)
    /\ blockResult' = [kind |-> "raised", exc |-> Exc("KeyboardInterrupt", 0)]
    /\ pc' = "finally"
    /\ UNCHANGED <<units, inputs, tracker, log_data, trackerOut, table, consumed,
                   total_rows, batch_count, errors, loaderVars, attempted, gaveUp>>

\* ---- metadata_tracker: exit ----------------------------------------------
\* the code after "yield tracker" when the block returned normally
TrackerSuccess ==
    /\ pc = "success"
    /\ log_data' = [log_data EXCEPT
                      !.end_time = "set",
                      !.duration_seconds = "set",
                      !.rows_processed = tracker.rows_processed,
                      !.file_size_bytes = tracker.file_size_bytes,
                      !.status = "SUCCESS",
                      !.error_message = NoExc]
    /\ pc' = "finally"
    /\ UNCHANGED <<units, inputs, tracker, pending, blockResult, trackerOut, table,
                   consumed, total_rows, batch_count, errors, loaderVars,
                   attempted, gaveUp>>

FailedRecord(e) ==
    [log_data EXCEPT
        !.end_time = "set",
        !.duration_seconds = "set",
        !.rows_processed = tracker.rows_processed,
        !.file_size_bytes = tracker.file_size_bytes,
        !.status = "FAILED",
        !.error_message = Truncate(e)]

\* a variant of the handler that also writes the record itself
TrackerExceptAlsoInserts ==
    /\ pc = "except"
    /\ log_data' = FailedRecord(pending)
    /\ metadata_log' = Append(metadata_log, log_data')
    /\ persistCalls' = persistCalls + 1
    /\ pc' = "finally"
    /\ UNCHANGED <<units, inputs, tracker, pending, blockResult, callerResult,
                   persistFailed, table, consumed, total_rows, batch_count,
                   errors, loaderVars, attempted, gaveUp>>

\* a variant of the handler without the final "raise"
TrackerExceptSwallows ==
    /\ pc = "except"
    /\ log_data' = FailedRecord(pending)
    /\ pending' = NoExc
    /\ pc' = "finally"
    /\ UNCHANGED <<units, inputs, tracker, blockResult, trackerOut, table, consumed,
                   total_rows, batch_count, errors, loaderVars, attempted, gaveUp>>

\* "except Exception as e": fill in the record and re-raise
TrackerExcept ==
    /\ pc = "except"
    /\ log_data' = FailedRecord(pending)
    /\ pc' = "finally"
    /\ UNCHANGED <<units, inputs, tracker, pending, blockResult, trackerOut, table,
                   consumed, total_rows, batch_count, errors, loaderVars,
                   attempted, gaveUp>>

\* a variant of _insert_metadata_log without its try/except
InsertMetadataLogUnguarded ==
    /\ pc = "finally"
    /\ persistCalls' = persistCalls + 1
    /\ \E fails \in 0..max_retries :
          LET r == InsertOutcome(conn, fails) IN
          /\ metadata_log' = IF r = "True" THEN Append(metadata_log, log_data)
                             ELSE metadata_log
          /\ persistFailed' = (r = "raise")
          /\ pending' = IF r = "raise" THEN Exc("PersistError", 3) ELSE pending
    /\ pc' = "unwind"
    /\ UNCHANGED <<units, inputs, tracker, log_data, blockResult, callerResult,
                   table, consumed, total_rows, batch_count, errors,
                   loaderVars, attempted, gaveUp>>

\* "finally: _insert_metadata_log(log_data, config, conn)": insert_table on
\* the one-row frame; an Exception of the insert is logged and dropped
InsertMetadataLog ==
    /\ pc = "finally"
    /\ persistCalls' = persistCalls + 1
    /\ \E fails \in 0..max_retries :
          LET r == InsertOutcome(conn, fails) IN
          /\ metadata_log' = IF r = "True" THEN Append(metadata_log, log_data)
                             ELSE metadata_log
          /\ persistFailed' = (r = "raise")
    /\ pc' = "unwind"
    /\ UNCHANGED <<units, inputs, tracker, log_data, pending, blockResult,
                   callerResult, table, consumed, total_rows, batch_count,
                   errors, loaderVars, attempted, gaveUp>>

\* the with-statement ends: the caller gets the pending exception, or control
TrackerExit ==
    /\ pc = "unwind"
    /\ callerResult' = IF pending = NoExc
                       THEN [kind |-> "returned", exc |-> NoExc]
                       ELSE [kind |-> "raised", exc |-> pending]
    /\ pc' = "done"
    /\ UNCHANGED <<units, inputs, tracker, log_data, pending, blockResult,
                   metadata_log, persistCalls, persistFailed, table, consumed,
                   total_rows, batch_count, errors, loaderVars, attempted, gaveUp>>

Next ==
    \/ TrackerEnter
    \/ StreamOpen
    \/ DftDownload
    \/ DftParse
    \/ NextBatch
    \/ LoadNoConn
    \/ AttemptOk
    \/ AttemptFailRetry
    \/ AttemptFailGiveUp
    \/ BatchDoneNhs
    \/ BatchDoneDft
    \/ StreamEnd
    \/ AggregateOk
    \/ BlockRaises
    \/ Interrupt
    \/ TrackerSuccess
    \/ TrackerExcept
    \/ InsertMetadataLog
    \/ TrackerExit

Spec == Init /\ [][Next]_vars

\* ---- properties ------------------------------------------------------------
TrackerEnded == pc \in {"unwind", "done"}
Interrupted == blockResult.kind = "raised" /\ blockResult.exc.exc = "KeyboardInterrupt"
Failed == blockResult.kind = "raised" /\ blockResult.exc.exc # "KeyboardInterrupt"
NumBatches == (nrows + batch_size - 1) \div batch_size
TimesLoaded(k) == Cardinality({i \in DOMAIN table : table[i].batch = k})
TimesLogged(k) == Cardinality({i \in DOMAIN errors : errors[i] = BatchError(k)})

\* C1: for every tracked run, _insert_metadata_log is called exactly once
\* when the tracked block ends, on the normal and on the raising path: not
\* before the block ends, never zero times once the tracker has unwound,
\* never twice; the log table never receives two records for the run and
\* receives exactly one when the insert goes through.
C1_PersistedExactlyOnce ==
    /\ persistCalls <= 1
    /\ Len(metadata_log) <= persistCalls
    /\ TrackerEnded => persistCalls = 1
    /\ ~TrackerEnded => persistCalls = 0
    /\ callerResult.kind # "none" => persistCalls = 1
    /\ (TrackerEnded /\ conn /\ ~persistFailed) => Len(metadata_log) = 1

C1_Witness ==
    /\ pc = "done"
    /\ Failed
    /\ persistCalls = 1
    /\ Len(metadata_log) = 1

\* C2: when the block raises, the record is persisted before the caller of
\* metadata_tracker sees the exception, and the exception the caller sees is
\* the one the block raised: not swallowed, not replaced.
C2_PersistedBeforeOriginalReraised ==
    /\ callerResult.kind = "raised" => persistCalls = 1
    /\ (pc = "done" /\ blockResult.kind = "raised") =>
          callerResult = [kind |-> "raised", exc |-> blockResult.exc]
    /\ callerResult.kind = "raised" =>
          (blockResult.kind = "raised" /\ callerResult.exc = blockResult.exc)

C2_Witness ==
    /\ pc = "done"
    /\ callerResult.kind = "raised"
    /\ callerResult.exc.exc = "ValueError"
    /\ Len(metadata_log) = 1
    /\ metadata_log[1].status = "FAILED"

\* C3: when insert_table raises inside _insert_metadata_log the outcome of
\* the run is unchanged: a block that returned still returns, a block that
\* raised still propagates its own exception, and the persistence error
\* never leaves metadata_tracker.
C3_PersistFailureKeepsOutcome ==
    /\ pending.exc # "PersistError"
    /\ callerResult.exc.exc # "PersistError"
    /\ (pc = "done" /\ persistFailed /\ blockResult.kind = "returned") =>
          callerResult = [kind |-> "returned", exc |-> NoExc]
    /\ (pc = "done" /\ persistFailed /\ blockResult.kind = "raised") =>
          callerResult = [kind |-> "raised", exc |-> blockResult.exc]

C3_Witness ==
    /\ pc = "done"
    /\ persistFailed
    /\ blockResult.kind = "returned"
    /\ callerResult.kind = "returned"
    /\ metadata_log = <<>>

\* C4: every persisted record is a finalized completion record: its status
\* is final (never STARTED) and its end time and duration are set, whether
\* the block returned, raised an Exception or was interrupted.
C4_PersistedRecordFinalized ==
    \A i \in DOMAIN metadata_log :
        /\ metadata_log[i].status # "STARTED"
        /\ metadata_log[i].end_time = "set"
        /\ metadata_log[i].duration_seconds = "set"

C6_RowsProcessedEqualsLoaded ==
    \A i \in DOMAIN metadata_log :
        metadata_log[i].status \in {"SUCCESS", "FAILED"} =>
            metadata_log[i].rows_processed = SumRows(table)

\* C7: the row total the streaming loader returns equals the sum of the
\* sizes of exactly the batches that were appended to the store.
C7_TotalRowsEqualsLoaded ==
    (proc = "nhs" /\ pc = "aggregate") => total_rows = SumRows(table)

\* C8: in the streaming CSV loader, a batch the loader gave up on does not
\* stop the run: batches are handed to the loader in order, each once (no
\* second, row-wise attempt), every batch of the file is handed over once
\* the stream is read to its end, and the error list holds exactly one entry
\* for each batch the loader gave up on and none for any other batch (the
\* batch in hand when the run is interrupted is not yet accounted for).
C8_PartialFailureContinuation ==
    proc = "nhs" =>
        /\ \A i \in DOMAIN attempted : attempted[i].batch = i
        /\ Len(attempted) = batch_count
        /\ \A k \in 1..batch_count :
              (k < batch_count \/ (pc \notin {"load", "loaded"} /\ ~Interrupted)) =>
                  TimesLogged(k) = (IF k \in gaveUp THEN 1 ELSE 0)
        /\ \A i \in DOMAIN errors :
              errors[i].kind = "batch" => errors[i].batch \in gaveUp
        /\ pc = "aggregate" =>
              /\ batch_count = NumBatches
              /\ SumRows(attempted) = nrows

C8_Witness ==
    /\ proc = "nhs"
    /\ pc = "aggregate"
    /\ batch_count = 3
    /\ gaveUp = {2}
    /\ errors = <<BatchError(2)>>
    /\ TimesLoaded(1) = 1
    /\ TimesLoaded(3) = 1

\* C9: one loader call whose first two attempts fail and whose third
\* succeeds appends the batch to the store exactly once and reports success.
C9_IdempotentRetry ==
    (pc = "loaded" /\ outcomes = <<"err", "err", "ok">>) =>
        /\ loadResult = "True"
        /\ TimesLoaded(batch_count) = 1

C9_Witness ==
    /\ pc = "loaded"
    /\ outcomes = <<"err", "err", "ok">>
    /\ loadResult = "True"
    /\ waits = <<3, 6>>

RunIdle ==
    /\ proc = "nhs"
    /\ conn = TRUE
    /\ nrows = 0
    /\ batch_size = 1
    /\ content_length = 0
    /\ pc = "idle"
    /\ tracker = [rows_processed |-> 0, file_size_bytes |-> 0]
    /\ log_data = [status |-> "none", end_time |-> "None",
                   duration_seconds |-> "None", rows_processed |-> 0,
                   file_size_bytes |-> 0, error_message |-> NoExc]
    /\ pending = NoExc
    /\ blockResult = [kind |-> "running", exc |-> NoExc]
    /\ callerResult = [kind |-> "none", exc |-> NoExc]
    /\ metadata_log = <<>>
    /\ persistCalls = 0
    /\ persistFailed = FALSE
    /\ table = <<>>
    /\ consumed = 0
    /\ total_rows = 0
    /\ batch_count = 0
    /\ errors = <<>>
    /\ attempt = 0
    /\ waits = <<>>
    /\ outcomes = <<>>
    /\ loadResult = "idle"
    /\ attempted = <<>>
    /\ gaveUp = {}

\* The loaders of the repository:
\*   "shared"  utils/data_processor_utils.insert_into_motherduck and its
\*             copies in nhs_english_prescriptions.py and bduk_premises.py
\*   "closure" national_stat_postcode_lookup.insert_into_motherduck
\*   "arrow"   street_manager / section_58 insert_table_to_motherduck
\*   "gpkg"    code_point / os_open_usrn / built_up_areas insert_into_motherduck
Variants == {"shared", "closure", "arrow", "gpkg"}

\* what the store raises when an attempt of this call fails: "transient"
\* (the text says "lease expired", contention, connection) or "permanent"
\* (schema or type mismatch, constraint violation)
ErrKinds == {"transient", "permanent"}

LoaderInit ==
    /\ RunIdle
    /\ reader = ReaderIdle
    /\ RestIdle
    /\ \E v \in Variants, c \in BOOLEAN, k \in ErrKinds :
          loader = [LoaderIdle EXCEPT !.variant = v, !.conn = c, !.kind = k,
                                      !.pc = "start"]

\* "if not conn: return False" (shared) / "return None" (closure, gpkg); the
\* Arrow loader has no such test
LCall ==
    /\ loader.pc = "start"
    /\ loader' =
         IF ~loader.conn /\ loader.variant # "arrow"
         THEN [loader EXCEPT !.result = IF loader.variant = "shared"
                                        THEN "False" ELSE "None",
                             !.pc = "exit"]
         ELSE [loader EXCEPT !.attempt = 0, !.pc = "try"]
    /\ UNCHANGED <<runVars, reader, rest>>

\* conn.register(name, batch)
LRegister ==
    /\ loader.pc = "try"
    /\ loader.conn
    /\ loader' = [loader EXCEPT !.registered = TRUE, !.pc = "execute"]
    /\ UNCHANGED <<runVars, reader, rest>>

\* Arrow loader called without a connection: conn.register raises
LRegisterFails ==
    /\ loader.pc = "try"
    /\ ~loader.conn
    /\ loader' = [loader EXCEPT !.outcomes = Append(@, "err"), !.pc = "except"]
    /\ UNCHANGED <<runVars, reader, rest>>

\* conn.execute(insert_sql) succeeds and the function returns; only the
\* shared loader has a finally clause on the way out
LExecuteOk ==
    /\ loader.pc = "execute"
    /\ loader' =
         IF loader.variant = "shared"
         THEN [loader EXCEPT !.appends = @ + 1, !.outcomes = Append(@, "ok"),
                             !.after = "return", !.pc = "finally"]
         ELSE [loader EXCEPT !.appends = @ + 1, !.outcomes = Append(@, "ok"),
                             !.result = IF loader.variant = "closure"
                                        THEN "True" ELSE "None",
                             !.pc = "exit"]
    /\ UNCHANGED <<runVars, reader, rest>>

\* conn.execute(insert_sql) raises
LExecuteFails ==
    /\ loader.pc = "execute"
    /\ loader' = [loader EXCEPT !.outcomes = Append(@, "err"), !.pc = "except"]
    /\ UNCHANGED <<runVars, reader, rest>>

\* the except clause releases the staging name, except in the closure loader
ReleasedInExcept == IF loader.variant = "closure" THEN loader.registered ELSE FALSE

\* conn.unregister raises in this call and the except clause of the shared
\* loader (and of its copy in bods_timetables.py) calls it unguarded
ReleaseRaisesInExcept == loader.release = "raises" /\ loader.variant = "shared"

\* the retry test of the except clause: the Arrow loader retries only an
\* error whose text says "lease expired", the others retry every Exception
Retryable ==
    IF loader.variant = "arrow"
    THEN loader.kind = "transient" /\ loader.conn /\ loader.attempt < max_retries - 1
    ELSE loader.attempt < max_retries - 1

\* except clause, retry branch: sleep, then the next attempt
LExceptRetry ==
    /\ loader.pc = "except"
    /\ ~ReleaseRaisesInExcept
    /\ Retryable
    /\ loader' =
         IF loader.variant = "shared"
         THEN [loader EXCEPT !.registered = ReleasedInExcept,
                             !.waits = Append(@, WaitTime(loader.attempt)),
                             !.after = "retry", !.pc = "finally"]
         ELSE [loader EXCEPT !.registered = ReleasedInExcept,
                             !.waits = Append(@, WaitTime(loader.attempt)),
                             !.attempt = @ + 1, !.pc = "try"]
    /\ UNCHANGED <<runVars, reader, rest>>

\* a variant that leaves the loop and reaches the trailing "return False"
LExceptReturnsFalse ==
    /\ loader.pc = "except"
    /\ ~Retryable
    /\ loader' =
         IF loader.variant = "shared"
         THEN [loader EXCEPT !.registered = ReleasedInExcept,
                             !.after = "return", !.pc = "finally"]
         ELSE [loader EXCEPT !.registered = ReleasedInExcept,
                             !.result = "False", !.pc = "exit"]
    /\ UNCHANGED <<runVars, reader, rest>>

\* except clause, last branch: bare "raise" of the error of this attempt
LExceptRaise ==
    /\ loader.pc = "except"
    /\ ~ReleaseRaisesInExcept
    /\ ~Retryable
    /\ loader' =
         IF loader.variant = "shared"
         THEN [loader EXCEPT !.registered = ReleasedInExcept,
                             !.raised = loader.attempt + 1,
                             !.after = "raise", !.pc = "finally"]
         ELSE [loader EXCEPT !.registered = ReleasedInExcept,
                             !.raised = loader.attempt + 1,
                             !.result = "raise", !.pc = "exit"]
    /\ UNCHANGED <<runVars, reader, rest>>

AfterFinally(l) ==
    CASE l.after = "retry" -> [l EXCEPT !.attempt = @ + 1, !.after = "none",
                                        !.pc = "try"]
      [] l.after = "return" -> [l EXCEPT !.result = IF l.outcomes # <<>> /\
                                                      l.outcomes[Len(l.outcomes)] = "ok"
                                                   THEN "True" ELSE "False",
                                         !.after = "none", !.pc = "exit"]
      [] OTHER -> [l EXCEPT !.result = "raise", !.after = "none", !.pc = "exit"]

\* a variant of the shared loader without the release in its finally clause
LFinallyNoRelease ==
    /\ loader.pc = "finally"
    /\ loader' = AfterFinally(loader)
    /\ UNCHANGED <<runVars, reader, rest>>

\* shared loader, finally clause: conn.unregister("temp_df"), an error of
\* which is dropped, then go on
LFinally ==
    /\ loader.pc = "finally"
    /\ loader' = AfterFinally([loader EXCEPT !.registered =
                                   IF loader.release = "raises" THEN @ ELSE FALSE])
    /\ UNCHANGED <<runVars, reader, rest>>

LoaderNext ==
    \/ LCall
    \/ LRegister
    \/ LRegisterFails
    \/ LExecuteOk
    \/ LExecuteFails
    \/ LExceptRetry
    \/ LExceptRaise
    \/ LFinally

SpecLoader == LoaderInit /\ [][LoaderNext]_vars

AllFailed(l) == l.outcomes # <<>> /\ \A i \in DOMAIN l.outcomes : l.outcomes[i] = "err"

C12_PermanentErrorNotRetried ==
    (loader.pc = "exit" /\ loader.kind = "permanent" /\ AllFailed(loader)) =>
        /\ Len(loader.outcomes) = 1
        /\ loader.waits = <<>>
        /\ loader.result = "raise"

C14_ArrowAndGpkgLoadersRelease ==
    (loader.variant \in {"arrow", "gpkg"} /\ loader.pc \in {"start", "try", "exit"}) =>
        ~loader.registered

\* ==== the streaming CSV reader (SpecAssembler, SpecReader) ==================
\* Text is a sequence of one-character strings. A byte is "a", ",", "\n", or
\* one half of a two-byte UTF-8 character: "L" its lead byte, "T" its
\* continuation byte; the character they encode is written "E".
MaxBytes == 4
MaxLines == 4

Bytes == {"a", ",", "\n", "L", "T"}

Range(s) == {s[i] : i \in DOMAIN s}

\* chunk.decode("utf-8", errors="ignore"): a lead byte followed by its
\* continuation byte is one character, any other "L" or "T" is dropped
RECURSIVE DecodeFrom(_, _)
DecodeFrom(chunk, i) ==
    IF i > Len(chunk) THEN <<>>
    ELSE IF chunk[i] = "L"
         THEN IF i < Len(chunk) /\ chunk[i + 1] = "T"
              THEN <<"E">> \o DecodeFrom(chunk, i + 2)
              ELSE DecodeFrom(chunk, i + 1)
    ELSE IF chunk[i] = "T" THEN DecodeFrom(chunk, i + 1)
    ELSE <<chunk[i]>> \o DecodeFrom(chunk, i + 1)

Decode(chunk) == DecodeFrom(chunk, 1)

\* str.split(sep): the pieces between the separators, at least one piece
RECURSIVE SplitFrom(_, _, _, _)
SplitFrom(text, sep, i, piece) ==
    IF i > Len(text) THEN <<piece>>
    ELSE IF text[i] = sep
         THEN <<piece>> \o SplitFrom(text, sep, i + 1, <<>>)
         ELSE SplitFrom(text, sep, i + 1, Append(piece, text[i]))

Split(text, sep) == SplitFrom(text, sep, 1, <<>>)

\* next(csv.reader([line])) for a line without quotes
CsvFields(line) == Split(line, ",")

\* "not line.strip()"
IsBlank(line) == line = <<>>

\* a variant that reports only the columns the header lacks
ValidateMissingOnly(header, expected_columns) ==
    [checked |-> TRUE,
     valid |-> expected_columns \ Range(header) = {},
     missing |-> expected_columns \ Range(header),
     extra |-> {}]

\* validate_column_names: (len(issues) == 0, issues)
ValidateColumnNames(header, expected_columns) ==
    [checked |-> TRUE,
     valid |-> /\ expected_columns \ Range(header) = {}
               /\ Range(header) \ expected_columns = {},
     missing |-> expected_columns \ Range(header),
     extra |-> Range(header) \ expected_columns]

\* the first non-blank line: header = next(csv.reader([line])), validated
\* "if expected_columns:"; when not valid the strict readers raise
\* ValueError("Invalid columns in CSV"), the Cadent reader logs "Proceeding
\* despite column mismatch"
ParseHeader(r, line) ==
    LET h == CsvFields(line)
        v == ValidateColumnNames(h, r.expected_columns)
    IN IF r.expected_columns = {} THEN [r EXCEPT !.header = h]
       ELSE IF v.valid \/ r.policy = "permissive"
       THEN [r EXCEPT !.header = h, !.validation = v]
       ELSE [r EXCEPT !.header = h, !.validation = v, !.status = "raised"]

\* a variant that keeps the yielded records in the buffer
AddRecordNoReset(r, rec) ==
    LET buf == Append(r.row_buffer, rec)
    IN IF Len(buf) >= r.batch_size
       THEN [r EXCEPT !.batches = Append(@, buf), !.row_buffer = buf]
       ELSE [r EXCEPT !.row_buffer = buf]

\* row_buffer.append(row_dict); yield the buffer when it has batch_size rows
\* and start a new one
AddRecord(r, rec) ==
    LET buf == Append(r.row_buffer, rec)
    IN IF Len(buf) >= r.batch_size
       THEN [r EXCEPT !.batches = Append(@, buf), !.row_buffer = <<>>]
       ELSE [r EXCEPT !.row_buffer = buf]

\* a data line: kept only "if len(values) == len(header)"
ParseRecord(r, line) ==
    LET values == CsvFields(line)
    IN IF Len(values) = Len(r.header)
       THEN AddRecord(r, [line |-> r.lineno, values |-> values])
       ELSE [r EXCEPT !.discarded = @ \cup {r.lineno}]

\* body of "for line in lines"; nothing runs once ValueError has been raised
ProcessLine(r, line) ==
    LET q == [r EXCEPT !.lineno = @ + 1]
    IN IF r.status = "raised" THEN r
       ELSE IF IsBlank(line) THEN q
       ELSE IF q.header = <<>> THEN ParseHeader(q, line)
       ELSE ParseRecord(q, line)

RECURSIVE ProcessLines(_, _, _)
ProcessLines(r, lines, i) ==
    IF i > Len(lines) THEN r
    ELSE ProcessLines(ProcessLine(r, lines[i]), lines, i + 1)

\* body of "for chunk in response.iter_content(...)"
ProcessChunk(r, chunk) ==
    LET text_chunk == r.partial_line \o Decode(chunk)
        lines == Split(text_chunk, "\n")
    IN ProcessLines([r EXCEPT !.partial_line = lines[Len(lines)]],
                    SubSeq(lines, 1, Len(lines) - 1), 1)

\* a variant that keeps the last line whatever its field count
FinalLineUnchecked(r) ==
    IF ~IsBlank(r.partial_line) /\ r.header # <<>>
    THEN [r EXCEPT !.lineno = @ + 1,
                   !.row_buffer = Append(@, [line |-> r.lineno + 1,
                                             values |-> CsvFields(r.partial_line)])]
    ELSE r

\* "if partial_line.strip() and header:" after the chunk loop
FinalLine(r) ==
    IF ~IsBlank(r.partial_line) /\ r.header # <<>>
    THEN IF Len(CsvFields(r.partial_line)) = Len(r.header)
         THEN [r EXCEPT !.lineno = @ + 1,
                        !.row_buffer = Append(@, [line |-> r.lineno + 1,
                                                  values |-> CsvFields(r.partial_line)])]
         ELSE [r EXCEPT !.lineno = @ + 1, !.discarded = @ \cup {r.lineno + 1}]
    ELSE r

\* a variant that yields the buffer even when it is empty
FlushAlways(r) == [r EXCEPT !.batches = Append(@, r.row_buffer)]

\* "if row_buffer: yield df_batch" at the end of the stream
Flush(r) ==
    IF r.row_buffer # <<>> THEN [r EXCEPT !.batches = Append(@, r.row_buffer)]
    ELSE r

\* what the generator does once the chunks are exhausted
FinishReader(r) == [Flush(FinalLine(r)) EXCEPT !.status = "done"]

\* the whole generator on a content delivered as one chunk
ReadAll(r, content) ==
    LET p == IF content = <<>> THEN r ELSE ProcessChunk(r, content)
    IN IF p.status = "raised" THEN p ELSE FinishReader(p)

NewReader(level, lines, content, unterminated, bs, cols) ==
    [ReaderIdle EXCEPT !.level = level, !.lines = lines, !.content = content,
                       !.unterminated = unterminated, !.batch_size = bs,
                       !.expected_columns = cols, !.status = "running"]

RECURSIVE Flatten(_)
Flatten(batches) ==
    IF batches = <<>> THEN <<>> ELSE Head(batches) \o Flatten(Tail(batches))

Values(records) == [i \in DOMAIN records |-> records[i].values]

SeqsUpTo(S, n) == UNION {[1..k -> S] : k \in 0..n}

\* the lines a file is made of in SpecReader: blank, one, two or three fields
LineChoices ==
    {<<>>, <<"a">>, <<"a", ",", "b">>, <<"a", ",", "c">>,
     <<"a", ",", "b", ",", "c">>}

\* the text of a file: its lines, each ended by "\n" except an unterminated
\* last line
RECURSIVE JoinFrom(_, _, _)
JoinFrom(lines, i, unterminated) ==
    IF i > Len(lines) THEN <<>>
    ELSE lines[i]
         \o (IF i = Len(lines) /\ unterminated THEN <<>> ELSE <<"\n">>)
         \o JoinFrom(lines, i + 1, unterminated)

JoinLines(lines, unterminated) == JoinFrom(lines, 1, unterminated)

\* a reader on any byte stream of at most MaxBytes bytes, cut into chunks
\* anywhere
AssemblerInit ==
    /\ RunIdle
    /\ loader = LoaderIdle
    /\ RestIdle
    /\ \E content \in SeqsUpTo(Bytes, MaxBytes), bs \in 1..MaxBatchSize,
          cols \in {{}, {<<"a">>}} :
          reader = NewReader("bytes", <<>>, content, FALSE, bs, cols)

\* a reader on a file of at most MaxLines lines, delivered line by line
ReaderInit ==
    /\ RunIdle
    /\ loader = LoaderIdle
    /\ RestIdle
    /\ \E lines \in SeqsUpTo(LineChoices, MaxLines), unterminated \in BOOLEAN,
          bs \in 1..MaxBatchSize, cols \in {{}, {<<"a">>, <<"b">>}} :
          /\ unterminated => (lines # <<>> /\ lines[Len(lines)] # <<>>)
          /\ reader = NewReader("lines", lines, JoinLines(lines, unterminated),
                                unterminated, bs, cols)

Remaining(r) == Len(r.content) - r.pos

\* the lengths the next chunk can have
ChunkLens(r) ==
    IF r.level = "bytes" THEN 1..Remaining(r)
    ELSE LET ends == {k \in 1..Remaining(r) : r.content[r.pos + k] = "\n"}
         IN IF ends = {} THEN {Remaining(r)}
            ELSE {CHOOSE k \in ends : \A j \in ends : k <= j}

\* one iteration of the chunk loop
ReaderChunk ==
    /\ reader.status = "running"
    /\ Remaining(reader) > 0
    /\ \E k \in ChunkLens(reader) :
          reader' = [ProcessChunk(reader, SubSeq(reader.content, reader.pos + 1,
                                                 reader.pos + k))
                        EXCEPT !.pos = reader.pos + k]
    /\ UNCHANGED <<runVars, loader, rest>>

\* the chunk loop has ended: last line and last batch
ReaderFinish ==
    /\ reader.status = "running"
    /\ Remaining(reader) = 0
    /\ reader' = FinishReader(reader)
    /\ UNCHANGED <<runVars, loader, rest>>

ReaderNext ==
    \/ ReaderChunk
    \/ ReaderFinish

SpecAssembler == AssemblerInit /\ [][ReaderNext]_vars

SpecReader == ReaderInit /\ [][ReaderNext]_vars

ReaderEnded == reader.status \in {"done", "raised"}

\* the same reader before its first chunk
Rewound(r) ==
    NewReader(r.level, r.lines, r.content, r.unterminated, r.batch_size,
              r.expected_columns)

\* what a consumer of the generator sees: how it ended, the header, the
\* records of the batches in order
Seen(r) ==
    [status |-> r.status, header |-> r.header,
     records |-> Values(Flatten(r.batches))]

\* C15: however the byte stream is cut into chunks, the reader ends with the
\* header and the sequence of records it gets when the stream is delivered
\* as one chunk.
C15_ChunkBoundaryInvariance ==
    (reader.level = "bytes" /\ ReaderEnded) =>
        Seen(reader) = Seen(ReadAll(Rewound(reader), reader.content))

\* C16: a file whose last line is not terminated ends the reader the same
\* way, with the same number of records, as the same file with "\n" added.
C16_TrailingNewlineIrrelevant ==
    (reader.level = "lines" /\ reader.unterminated /\ ReaderEnded) =>
        LET other == ReadAll(Rewound(reader), JoinLines(reader.lines, FALSE))
        IN /\ reader.status = other.status
           /\ Len(Flatten(reader.batches)) = Len(Flatten(other.batches))

\* ---- what the file says, whatever the reader does ----
IndexOfHeader(lines) ==
    IF \E i \in DOMAIN lines : ~IsBlank(lines[i])
    THEN CHOOSE i \in DOMAIN lines :
            ~IsBlank(lines[i]) /\ \A j \in 1..(i - 1) : IsBlank(lines[j])
    ELSE 0

\* the numbers of the data lines that have as many fields as the header
WellFormedLines(lines) ==
    {i \in DOMAIN lines :
        /\ i > IndexOfHeader(lines)
        /\ ~IsBlank(lines[i])
        /\ Len(CsvFields(lines[i])) = Len(CsvFields(lines[IndexOfHeader(lines)]))}

MalformedLines(lines) ==
    {i \in DOMAIN lines :
        /\ i > IndexOfHeader(lines)
        /\ ~IsBlank(lines[i])
        /\ Len(CsvFields(lines[i])) # Len(CsvFields(lines[IndexOfHeader(lines)]))}

CeilDiv(n, b) == (n + b - 1) \div b

LineNumbers(records) == {records[i].line : i \in DOMAIN records}

Increasing(records) ==
    \A i, j \in DOMAIN records : i < j => records[i].line < records[j].line

C18_BatchSizes ==
    reader.level = "lines" =>
       /\ \A i \in DOMAIN reader.batches :
             /\ Len(reader.batches[i]) >= 1
             /\ Len(reader.batches[i]) <= reader.batch_size
             /\ i < Len(reader.batches) => Len(reader.batches[i]) = reader.batch_size
       /\ reader.status = "running" => Len(reader.row_buffer) < reader.batch_size
       /\ reader.status = "done" =>
             LineNumbers(reader.row_buffer) \subseteq LineNumbers(Flatten(reader.batches))

C18_Witness ==
    /\ reader.level = "lines"
    /\ reader.status = "done"
    /\ reader.batch_size = 2
    /\ reader.unterminated
    /\ Len(reader.batches) = 2
    /\ Len(reader.batches[2]) = 1

C20_StrictHeaderValidation ==
    (reader.level = "lines" /\ reader.expected_columns # {} /\ reader.header # <<>>) =>
       /\ reader.validation.checked
       /\ reader.validation.valid <=> Range(reader.header) = reader.expected_columns
       /\ reader.validation.missing = reader.expected_columns \ Range(reader.header)
       /\ reader.validation.extra = Range(reader.header) \ reader.expected_columns
       /\ reader.header = <<<<"a">>, <<"c">>>> =>
             /\ ~reader.validation.valid
             /\ reader.validation.missing = {<<"b">>}
             /\ reader.validation.extra = {<<"c">>}
       /\ reader.header = <<<<"a">>, <<"b">>>> => reader.validation.valid
       /\ reader.status = "raised" <=> ~reader.validation.valid
       /\ reader.status = "raised" => (reader.batches = <<>> /\ reader.row_buffer = <<>>)

C20_Witness ==
    /\ reader.level = "lines"
    /\ reader.status = "raised"
    /\ reader.header = <<<<"a">>, <<"c">>>>
    /\ Len(reader.lines) > 2
    /\ reader.lines[2] = <<"a", ",", "c">>

\* ==== readers of a streamed ZIP archive (SpecZip) ============================
\*   "bduk" bduk_premises.stream_csv_from_zip
\*   "bods" bods_timetables.stream_gtfs_csv_from_zip
\*   "dft"  dft_road_stats.process_zip_with_ods_files
MaxEntries == 2

ZipVariants == {"bduk", "bods", "dft"}

\* the entry names an archive of each kind may hold
Names(v) ==
    CASE v = "bduk" -> {"a.csv", "b.csv", "b.txt"}
      [] v = "bods" -> {"stops.txt", "trips.txt", "notes.txt", "b.csv"}
      [] OTHER -> {"a.ods", "b.ods", "b.txt"}

\* get_table_name_from_filename: gtfs_mapping.get(base_name)
GtfsTable(name) ==
    CASE name = "stops.txt" -> "stops"
      [] name = "trips.txt" -> "trips"
      [] OTHER -> "None"

\* the table the entry is loaded into, "None" when the entry is skipped
TableOf(v, name) ==
    CASE v = "bduk" -> IF name \in {"a.csv", "b.csv"} THEN "table_name" ELSE "None"
      [] v = "bods" -> IF name \in {"stops.txt", "trips.txt", "notes.txt"}
                       THEN GtfsTable(name) ELSE "None"
      [] OTHER -> IF name = "a.ods" THEN "prefix_a"
                  ELSE IF name = "b.ods" THEN "prefix_b" ELSE "None"

Matches(v, name) == TableOf(v, name) # "None"

HeaderAB == <<"a", ",", "b">>
HeaderAC == <<"a", ",", "c">>

\* the lines of an entry: an empty file, a header with one or two rows, a
\* file whose header is not the template's
EntryContents ==
    {<<>>, <<HeaderAB, HeaderAB>>, <<HeaderAB, HeaderAB, HeaderAB>>,
     <<HeaderAC, HeaderAC>>}

\* each line of an entry comes as one chunk of the entry's chunk iterator
NumChunks(entry) == Len(entry.lines)

ChunkOf(entry, i) == Append(entry.lines[i], "\n")

\* rows of the sheet of an .ods entry: len(df_clean)
OdsRows(entry) == IF entry.lines = <<>> THEN 0 ELSE Len(entry.lines) - 1

\* a variant that carries header, partial_line and row_buffer over from the
\* entry before
EntryLocalsKept(z) ==
    IF z.r.level = "none"
    THEN NewReader("lines", <<>>, <<>>, FALSE, z.batch_size, z.expected_columns)
    ELSE [z.r EXCEPT !.status = "running"]

\* row_buffer = []; header = None; partial_line = "" at the top of an entry
EntryLocals(z) ==
    NewReader("lines", <<>>, <<>>, FALSE, z.batch_size, z.expected_columns)

ZipInit ==
    /\ RunIdle
    /\ loader = LoaderIdle
    /\ reader = ReaderIdle
    /\ store = StoreIdle
    /\ column = ColumnIdle
    /\ MoreIdle
    /\ \E v \in ZipVariants, bs \in 1..MaxBatchSize :
       \E entries \in SeqsUpTo([name : Names(v), lines : EntryContents], MaxEntries) :
          zip = [variant |-> v, entries |-> entries, batch_size |-> bs,
                 expected_columns |-> IF v = "bduk" THEN {<<"a">>, <<"b">>} ELSE {},
                 pc |-> "next", idx |-> 0, pos |-> 0, r |-> ReaderIdle,
                 batches |-> <<>>, undrained |-> {}, failed |-> {},
                 rows_history |-> <<0>>, results |-> <<>>]

CurrentEntry == zip.entries[zip.idx]

\* the batches a reader step has yielded, with the entry they were yielded in
Tagged(z, r) ==
    [i \in DOMAIN r.batches |->
        [entry |-> z.idx, table |-> TableOf(z.variant, z.entries[z.idx].name),
         header |-> r.header, records |-> r.batches[i]]]

Drained(z) == z.idx = 0 \/ z.pos = NumChunks(z.entries[z.idx])

RECURSIVE SumResults(_)
SumResults(results) ==
    IF results = <<>> THEN 0 ELSE Head(results).rows + SumResults(Tail(results))

\* results[table_name] = rows
SetResult(results, t, rows) ==
    IF \E i \in DOMAIN results : results[i].table = t
    THEN [i \in DOMAIN results |->
             IF results[i].table = t THEN [table |-> t, rows |-> rows]
             ELSE results[i]]
    ELSE Append(results, [table |-> t, rows |-> rows])

\* the for loop asks stream_unzip for the next entry; stream_unzip raises
\* UnfinishedIterationError when the chunks of the entry before were not
\* iterated to the end
ZNextEntry ==
    /\ zip.pc = "next"
    /\ IF ~Drained(zip)
       THEN zip' = [zip EXCEPT !.undrained = @ \cup {zip.idx}, !.pc = "raised"]
       ELSE IF zip.idx = Len(zip.entries)
       THEN zip' = [zip EXCEPT !.pc = "done",
                       !.rows_history =
                           IF zip.variant = "dft"
                           THEN Append(@, SumResults(zip.results)) ELSE @]
       ELSE LET e == zip.entries[zip.idx + 1]
                z == [zip EXCEPT !.idx = @ + 1, !.pos = 0]
            IN IF Matches(zip.variant, e.name)
               THEN zip' = [z EXCEPT !.r = EntryLocals(zip), !.pc = "entry"]
               ELSE IF zip.variant = "bods"
               THEN zip' = [z EXCEPT !.pos = NumChunks(e)]
               ELSE zip' = z
    /\ UNCHANGED <<runVars, loader, reader, store, column, more>>

\* one chunk of a CSV entry: lines, header, records, full batches
ZChunk ==
    /\ zip.pc = "entry"
    /\ zip.variant \in {"bduk", "bods"}
    /\ zip.pos < NumChunks(CurrentEntry)
    /\ LET r == ProcessChunk(zip.r, ChunkOf(CurrentEntry, zip.pos + 1))
       IN zip' = [zip EXCEPT !.pos = @ + 1,
                             !.batches = @ \o Tagged(zip, r),
                             !.r = [r EXCEPT !.batches = <<>>],
                             !.pc = IF r.status = "raised" THEN "raised" ELSE "entry"]
    /\ UNCHANGED <<runVars, loader, reader, store, column, more>>

\* the chunks of a CSV entry are exhausted: last line, last batch
ZEntryEnd ==
    /\ zip.pc = "entry"
    /\ zip.variant \in {"bduk", "bods"}
    /\ zip.pos = NumChunks(CurrentEntry)
    /\ LET r == FinishReader(zip.r)
       IN zip' = [zip EXCEPT !.batches = @ \o Tagged(zip, r),
                             !.r = [r EXCEPT !.batches = <<>>],
                             !.pc = "next"]
    /\ UNCHANGED <<runVars, loader, reader, store, column, more>>

\* a variant in which the failure of an entry ends every reader
ZEntryFailsPropagates ==
    /\ zip.pc = "entry"
    /\ zip' = [zip EXCEPT !.failed = @ \cup {[entry |-> zip.idx,
                                              yielded |-> Len(zip.batches)]},
                          !.pc = "raised"]
    /\ UNCHANGED <<runVars, loader, reader, store, column, more>>

\* something raises while an entry is processed: the GTFS reader logs it,
\* drains the entry and goes on; in the other readers it propagates
ZEntryFails ==
    /\ zip.pc = "entry"
    /\ zip' = IF zip.variant = "bods"
              THEN [zip EXCEPT !.failed = @ \cup {[entry |-> zip.idx,
                                                   yielded |-> Len(zip.batches)]},
                               !.pos = NumChunks(CurrentEntry),
                               !.pc = "next"]
              ELSE [zip EXCEPT !.failed = @ \cup {[entry |-> zip.idx,
                                                   yielded |-> Len(zip.batches)]},
                               !.pc = "raised"]
    /\ UNCHANGED <<runVars, loader, reader, store, column, more>>

\* an .ods entry: written to a temp file, then process_ods_file records
\* len(df_clean) in the tracker and loads the rows
ZOdsEntry ==
    /\ zip.pc = "entry"
    /\ zip.variant = "dft"
    /\ zip' = [zip EXCEPT
                 !.pos = NumChunks(CurrentEntry),
                 !.rows_history = Append(@, OdsRows(CurrentEntry)),
                 !.results = SetResult(@, TableOf("dft", CurrentEntry.name),
                                       OdsRows(CurrentEntry)),
                 !.pc = "next"]
    /\ UNCHANGED <<runVars, loader, reader, store, column, more>>

ZipNext ==
    \/ ZNextEntry
    \/ ZChunk
    \/ ZEntryEnd
    \/ ZEntryFails
    \/ ZOdsEntry

SpecZip == ZipInit /\ [][ZipNext]_vars

ZipEnded == zip.pc \in {"done", "raised"}

\* the batches yielded in entry i, in order
BatchesOf(i) == SelectSeq(zip.batches, LAMBDA b : b.entry = i)

RECURSIVE RecordsIn(_)
RecordsIn(batches) ==
    IF batches = <<>> THEN <<>>
    ELSE Head(batches).records \o RecordsIn(Tail(batches))

\* what the entry says: its header fails validation against the template
HeaderInvalid(entry) ==
    /\ entry.lines # <<>>
    /\ zip.expected_columns # {}
    /\ Range(CsvFields(entry.lines[1])) # zip.expected_columns

\* the data lines of the entry
DataLines(entry) == IF entry.lines = <<>> THEN <<>> ELSE Tail(entry.lines)

AllMatch == \A i \in DOMAIN zip.entries : Matches(zip.variant, zip.entries[i].name)

\* C21: in an archive of CSV entries read by the BDUK reader, an entry whose
\* header fails validation yields nothing, and every entry with a valid
\* header, those after a failed one included, is read and batched when the
\* reader has ended.
C21_InvalidHeaderSkipsEntryOnly ==
    (zip.variant = "bduk" /\ ZipEnded /\ AllMatch /\ zip.failed = {}) =>
        \A i \in DOMAIN zip.entries :
            IF HeaderInvalid(zip.entries[i])
            THEN BatchesOf(i) = <<>>
            ELSE Len(RecordsIn(BatchesOf(i))) = Len(DataLines(zip.entries[i]))

\* ==== the permissive reader of the Cadent feed (SpecCadent) ==================
\* cadent_underground.stream_csv_from_url on a file of at most MaxLines lines
CadentInit ==
    /\ RunIdle
    /\ loader = LoaderIdle
    /\ RestIdle
    /\ \E lines \in SeqsUpTo(LineChoices, MaxLines), unterminated \in BOOLEAN,
          bs \in 1..MaxBatchSize, cols \in {{}, {<<"a">>, <<"b">>}} :
          /\ unterminated => (lines # <<>> /\ lines[Len(lines)] # <<>>)
          /\ reader = [NewReader("lines", lines, JoinLines(lines, unterminated),
                                 unterminated, bs, cols)
                          EXCEPT !.policy = "permissive"]

SpecCadent == CadentInit /\ [][ReaderNext]_vars

\* row_dict = dict(zip(header, values)): one key per header name, a repeated
\* name keeps the value of its last position
RowDict(header, values) ==
    [n \in Range(header) |->
        values[CHOOSE i \in DOMAIN header :
                  header[i] = n /\ \A j \in DOMAIN header : j > i => header[j] # n]]

\* C22: the Cadent reader does not raise on a header that fails validation,
\* and no record of a yielded batch has a column that the template lacks.
C22_PermissiveIgnoresExtras ==
    (reader.policy = "permissive" /\ reader.expected_columns # {}) =>
        /\ reader.status # "raised"
        /\ \A i \in DOMAIN Flatten(reader.batches) :
              DOMAIN RowDict(reader.header, Flatten(reader.batches)[i].values)
                  \subseteq reader.expected_columns

\* ==== type cleaning of one column of a batch (SpecCoerce) ====================
\*   "nhs"    nhs_english_prescriptions.clean_dataframe_for_motherduck
\*   "naptan" naptan.clean_naptan_data
MaxCells == 2

Cleaners == {"nhs", "naptan"}

DeclaredTypes == {"BIGINT", "DOUBLE", "INTEGER", "TIMESTAMP", "VARCHAR"}

\* the text of a cell: an integer, a decimal, a word, nothing, a date
CellTexts == {"12", "1.5", "abc", "", "2020-01-01"}

\* a cleaned cell: None / NaN / <NA>, a string, or a number (in tenths)
Null == [t |-> "null", text |-> "", tenths |-> 0]
Str(c) == [t |-> "str", text |-> c, tenths |-> 0]
Num(n) == [t |-> "num", text |-> "", tenths |-> n]

\* the number a text is, in tenths
Tenths(c) == IF c = "12" THEN 120 ELSE 15

IsNumberText(c) == c \in {"12", "1.5"}

\* series.replace([...], None)
ReplaceWithNone(cell, texts) ==
    IF cell.t = "str" /\ cell.text \in texts THEN Null ELSE cell

\* pd.to_numeric(series, errors="coerce") on one cell
ToNumeric(cell) ==
    IF cell.t = "str" /\ IsNumberText(cell.text) THEN Num(Tenths(cell.text))
    ELSE IF cell.t = "num" THEN cell
    ELSE Null

\* series.astype("Int64") raises TypeError when a value is not a whole number
Int64Raises(cells) ==
    \E i \in DOMAIN cells : cells[i].t = "num" /\ cells[i].tenths % 10 # 0

\* the three column-wise calls, cell by cell
AsStrings(cells) == [i \in DOMAIN cells |-> Str(cells[i])]

ReplaceAll(cells, texts) ==
    [i \in DOMAIN cells |-> ReplaceWithNone(cells[i], texts)]

ToNumericAll(cells) == [i \in DOMAIN cells |-> ToNumeric(cells[i])]

AllNone(cells) == [i \in DOMAIN cells |-> Null]

NoCleaning == [raised |-> FALSE, cells |-> <<>>]

\* clean_dataframe_for_motherduck on one column declared dtype
CleanNhs(dtype, cells) ==
    LET raw == AsStrings(cells)
        replaced == ReplaceAll(raw, {"", "nan", "NaN", "null"})
        numeric == ToNumericAll(replaced)
    IN CASE dtype = "BIGINT" ->
              IF Int64Raises(numeric) THEN [raised |-> TRUE, cells |-> <<>>]
              ELSE [raised |-> FALSE, cells |-> numeric]
         [] dtype = "DOUBLE" -> [raised |-> FALSE, cells |-> numeric]
         [] dtype = "INTEGER" -> [raised |-> FALSE, cells |-> replaced]
         [] OTHER ->
              [raised |-> FALSE,
               cells |-> ReplaceAll(raw, {"nan", "NaN", "null"})]

\* clean_naptan_data on one column declared dtype
CleanNaptan(dtype, cells) ==
    LET raw == AsStrings(cells)
        replaced == ReplaceAll(raw, {"", "nan", "NaN"})
    IN CASE dtype \in {"DOUBLE", "BIGINT"} ->
              [raised |-> FALSE, cells |-> ToNumericAll(replaced)]
         [] dtype = "TIMESTAMP" ->
              [raised |-> FALSE, cells |-> AllNone(raw)]
         [] OTHER ->
              [raised |-> FALSE,
               cells |-> ReplaceAll(raw, {"nan", "NaN", "None"})]

CoerceInit ==
    /\ RunIdle
    /\ loader = LoaderIdle
    /\ reader = ReaderIdle
    /\ zip = ZipIdle
    /\ store = StoreIdle
    /\ MoreIdle
    /\ \E cl \in Cleaners, dtype \in DeclaredTypes,
          cells \in SeqsUpTo(CellTexts, MaxCells) :
          column = [cleaner |-> cl, dtype |-> dtype, cells |-> cells,
                    pc |-> "raw", cleaned |-> NoCleaning]

\* df_batch = clean_dataframe_for_motherduck(df_batch, expected_columns)
CleanColumn ==
    /\ column.pc = "raw"
    /\ column' = [column EXCEPT
                    !.cleaned = IF column.cleaner = "nhs"
                                THEN CleanNhs(column.dtype, column.cells)
                                ELSE CleanNaptan(column.dtype, column.cells),
                    !.pc = "cleaned"]
    /\ UNCHANGED <<runVars, loader, reader, zip, store, more>>

CoerceNext ==
    \/ CleanColumn

SpecCoerce == CoerceInit /\ [][CoerceNext]_vars

\* what the text of a cell says: it is a value of the declared type
Parsable(dtype, c) ==
    CASE dtype \in {"BIGINT", "INTEGER"} -> c = "12"
      [] dtype = "DOUBLE" -> IsNumberText(c)
      [] dtype = "TIMESTAMP" -> c = "2020-01-01"
      [] OTHER -> TRUE

\* the cleaned cell still holds the value of the text
KeepsValue(cell, c) ==
    \/ cell = Str(c)
    \/ IsNumberText(c) /\ cell = Num(Tenths(c))

\* C23: cleaning a column declared BIGINT, DOUBLE, INTEGER or TIMESTAMP never
\* raises; a cell that is a value of the declared type keeps its value and
\* every other cell is null afterwards.
C23_CoercionNullsExactlyFailures ==
    (column.pc = "cleaned" /\
     column.dtype \in {"BIGINT", "DOUBLE", "INTEGER", "TIMESTAMP"}) =>
        /\ ~column.cleaned.raised
        /\ \A i \in DOMAIN column.cells :
              IF Parsable(column.dtype, column.cells[i])
              THEN KeepsValue(column.cleaned.cells[i], column.cells[i])
              ELSE column.cleaned.cells[i] = Null

\* C24: whenever a reader of a streamed ZIP asks for the next entry, the
\* chunks of the entry before, skipped entries included, have all been
\* iterated.
C24_EntriesDrainedBeforeNext ==
    /\ zip.pc = "next" => Drained(zip)
    /\ zip.variant # "none" => zip.undrained = {}

\* C25: every batch the CSV readers of a ZIP yield belongs to one matching
\* entry: its table is the one the entry's name maps to, its header is that
\* entry's first line, its records are data lines of that entry, each at most
\* once and in order; header, partial line and row buffer are empty when an
\* entry starts.
C25_BatchesOfOneMatchingEntry ==
    zip.variant \in {"bduk", "bods"} =>
       /\ \A k \in DOMAIN zip.batches :
             LET b == zip.batches[k]
                 e == zip.entries[b.entry]
             IN /\ Matches(zip.variant, e.name)
                /\ b.table = TableOf(zip.variant, e.name)
                /\ b.header = CsvFields(e.lines[1])
                /\ \A i \in DOMAIN b.records :
                      /\ b.records[i].line \in 2..Len(e.lines)
                      /\ b.records[i].values = CsvFields(e.lines[b.records[i].line])
       /\ \A i \in DOMAIN zip.entries : Increasing(RecordsIn(BatchesOf(i)))
       /\ (zip.pc = "entry" /\ zip.pos = 0) =>
             /\ zip.r.header = <<>>
             /\ zip.r.partial_line = <<>>
             /\ zip.r.row_buffer = <<>>

C25_Witness ==
    /\ zip.variant = "bods"
    /\ zip.pc = "done"
    /\ Len(zip.entries) = 2
    /\ BatchesOf(1) # <<>>
    /\ BatchesOf(2) # <<>>
    /\ zip.batches[1].table # zip.batches[Len(zip.batches)].table

FailedEntries == {f.entry : f \in zip.failed}

C29_RowsProcessedMonotonic ==
    zip.variant = "dft" =>
       \A i, j \in DOMAIN zip.rows_history :
          i < j => zip.rows_history[i] <= zip.rows_history[j]

\* ==== the source GET of the streaming reader (SpecFetch) =====================
\* what requests.get / raise_for_status meet: status 200, a non-2xx status,
\* or no connection
Responses == {"200", "404", "connection_error"}

FetchInit ==
    /\ RunIdle
    /\ loader = LoaderIdle
    /\ RestIdle
    /\ \E lines \in SeqsUpTo(LineChoices, MaxLines), bs \in 1..MaxBatchSize,
          cols \in {{}, {<<"a">>, <<"b">>}} :
          reader = [NewReader("lines", lines, JoinLines(lines, FALSE), FALSE, bs, cols)
                       EXCEPT !.status = "open"]

\* a variant that repeats a failed GET up to max_retries times
ReaderOpenRetries ==
    /\ reader.status = "open"
    /\ \E resp \in Responses :
          reader' = [reader EXCEPT
                       !.gets = @ + 1,
                       !.response = resp,
                       !.status = IF resp = "200" THEN "running"
                                  ELSE IF reader.gets + 1 < max_retries THEN "open"
                                  ELSE "get_failed"]
    /\ UNCHANGED <<runVars, loader, rest>>

\* response = requests.get(csv_url, stream=True, timeout=30);
\* response.raise_for_status(); a failure goes through "except Exception:
\* ... raise" and ends the generator
ReaderOpen ==
    /\ reader.status = "open"
    /\ \E resp \in Responses :
          reader' = [reader EXCEPT
                       !.gets = @ + 1,
                       !.response = resp,
                       !.status = IF resp = "200" THEN "running" ELSE "get_failed"]
    /\ UNCHANGED <<runVars, loader, rest>>

FetchNext ==
    \/ ReaderOpen
    \/ ReaderChunk
    \/ ReaderFinish

SpecFetch == FetchInit /\ [][FetchNext]_vars

\* C27: a GET that fails is the only GET of the reader; the reader then has
\* raised, without having read a line or yielded a batch.
C27_FailedGetIsFatal ==
    /\ reader.gets <= 1
    /\ reader.response \in {"404", "connection_error"} =>
          /\ reader.gets = 1
          /\ reader.status = "get_failed"
          /\ reader.pos = 0
          /\ reader.batches = <<>>
          /\ reader.row_buffer = <<>>
    /\ reader.status = "get_failed" => reader.response \in {"404", "connection_error"}

C27_Witness ==
    /\ reader.status = "get_failed"
    /\ reader.response = "404"
    /\ reader.gets = 1
    /\ Len(reader.lines) = 2
    /\ reader.lines[2] = <<"a", ",", "b">>

\* ==== insert_table on a target table and on the metadata log (SpecTable) =====
MaxLoads == 3
MaxRuns == 3

ProcessorTypes == {"MOTHERDUCK", "POSTGRESQL"}

TableInit ==
    /\ RunIdle
    /\ loader = LoaderIdle
    /\ reader = ReaderIdle
    /\ zip = ZipIdle
    /\ column = ColumnIdle
    /\ MoreIdle
    /\ \E t \in ProcessorTypes :
          store = [processor_type |-> t, pc |-> "ready",
                   data |-> <<>>,        \* the batches whose rows the target table holds
                   metadata |-> <<>>,    \* the run records the metadata log table holds
                   loaded |-> <<>>,      \* the batches insert_table has returned from
                   runs |-> 0]           \* the runs _insert_metadata_log has logged

\* insert_table: MotherDuck runs INSERT INTO ... SELECT * FROM temp_df,
\* PostgreSQL runs DELETE FROM the table and then one INSERT per row
InsertTable(t, rows, df) ==
    IF t = "MOTHERDUCK" THEN Append(rows, df) ELSE <<df>>

\* a successful insert_table(df_batch, conn, schema, table, processor_type)
InsertBatch ==
    /\ store.pc = "ready"
    /\ Len(store.loaded) < MaxLoads
    /\ \E n \in 1..MaxBatchSize :
          LET df == [batch |-> Len(store.loaded) + 1, rows |-> n]
          IN store' = [store EXCEPT
                         !.data = InsertTable(store.processor_type, @, df),
                         !.loaded = Append(@, df)]
    /\ UNCHANGED <<runVars, loader, reader, zip, column, more>>

\* a successful _insert_metadata_log at the end of a run
LogRun ==
    /\ store.pc = "ready"
    /\ store.runs < MaxRuns
    /\ store' = [store EXCEPT
                   !.metadata = InsertTable(store.processor_type, @,
                                            [run |-> store.runs + 1]),
                   !.runs = @ + 1]
    /\ UNCHANGED <<runVars, loader, reader, zip, column, more>>

TableNext ==
    \/ InsertBatch
    \/ LogRun

SpecTable == TableInit /\ [][TableNext]_vars

\* C28: for either processor type the target table holds the rows of every
\* batch insert_table has loaded, in order, and the metadata log table holds
\* one record per logged run.
C28_InsertTableAppends ==
    store.pc = "ready" =>
       /\ store.data = store.loaded
       /\ Len(store.metadata) = store.runs

\* C30: every call of the shared insert_into_motherduck ends by returning a
\* boolean, True exactly when the batch was appended.
C30_LoaderReturnsBoolean ==
    (loader.variant = "shared" /\ loader.pc = "exit") =>
        /\ loader.result \in {"True", "False"}
        /\ loader.result = "True" <=> loader.appends >= 1

\* ---- the tracked NHS run: size and status of the completion record -------
\* C31: on a successful tracked run of the streaming CSV processor, the
\* completion record's file_size_bytes is the size the download declared
\* (0 only when none was declared).
C31_FileSizeIsDeclaredSize ==
    (proc = "nhs" /\ TrackerEnded /\ log_data.status = "SUCCESS") =>
        log_data.file_size_bytes = content_length

\* the for loop over stream_csv_from_url has ended without an exception
StreamReadToEnd ==
    /\ proc = "nhs"
    /\ \/ pc = "aggregate"
       \/ blockResult.kind = "returned"
       \/ blockResult.exc.exc = "AggregateError"

ErrorPerFailedBatch ==
    /\ \A k \in 1..batch_count : TimesLogged(k) = (IF k \in gaveUp THEN 1 ELSE 0)
    /\ Len(errors) = Cardinality(gaveUp)

\* C35 as stated: if the stream is read to its end, the run is persisted as
\* SUCCESS however many batches failed to load, rows_processed counts only
\* the batches that loaded, and there is one error entry per failed batch.
C35_StreamReadMeansSuccess ==
    \A i \in DOMAIN metadata_log :
        StreamReadToEnd =>
            /\ metadata_log[i].status = "SUCCESS"
            /\ metadata_log[i].rows_processed = SumRows(table)
            /\ ErrorPerFailedBatch

\* C35 amended: batch load failures the loop catches never change the
\* recorded status.  If the stream is read to its end, the persisted record
\* says SUCCESS when the aggregation that follows also succeeds and FAILED
\* when the aggregation raises, however many batches failed to load; in both
\* cases rows_processed counts only the batches that loaded and the error
\* list has one entry per failed batch.
C35_BatchFailuresKeepStatus ==
    \A i \in DOMAIN metadata_log :
        StreamReadToEnd =>
            /\ metadata_log[i].status =
                  (IF blockResult.kind = "returned" THEN "SUCCESS" ELSE "FAILED")
            /\ metadata_log[i].rows_processed = SumRows(table)
            /\ ErrorPerFailedBatch

C35_Witness ==
    /\ proc = "nhs"
    /\ Len(metadata_log) = 1
    /\ metadata_log[1].status = "SUCCESS"
    /\ Cardinality(gaveUp) = 2
    /\ metadata_log[1].rows_processed = 1
    /\ Len(errors) = 2

\* ==== Section 58: process_data, batch_processor, SCD Type 2 ================
\* A sequence of runs of section_58.process_data against one staging table
\* and one dimension table.  The archive is the entries stream_unzip has
\* handed over so far, at most MaxItems of them.  An archive entry is one JSON record, kept as its
\* section_58_reference_number and its event_time; Unparsable is an entry
\* that json.loads rejects.  Every record has object_type SECTION_58 and an
\* event_time that casts to a timestamp.  street_manager.batch_processor is
\* the same code as section_58.batch_processor.
MaxItems == 3
MaxS58Runs == 2

Unparsable == [ref |-> "", event_time |-> 0]

S58Items ==
    {[ref |-> "A", event_time |-> 1], [ref |-> "A", event_time |-> 2],
     [ref |-> "B", event_time |-> 1], Unparsable}

S58Init ==
    /\ RunIdle
    /\ loader = LoaderIdle
    /\ reader = ReaderIdle
    /\ zip = ZipIdle
    /\ store = StoreIdle
    /\ column = ColumnIdle
    /\ aggr = AggrIdle
    /\ hdr = HdrIdle
    /\ s58 = [pc |-> "new", runs |-> 0, archive |-> <<>>, batch_size |-> 1,
              is_initial_load |-> TRUE, idx |-> 0, flattened_data |-> <<>>,
              batch_count |-> 0, total_rows_processed |-> 0, returned |-> -1,
              staging |-> <<>>, dimension |-> {}, loaded |-> <<>>,
              events |-> <<>>, failed_at |-> "none"]

S58Rest == <<runVars, loader, reader, zip, store, column, aggr, hdr>>

\* process_data is called: ensure_sequence_exists, ensure_tables_exist
S58Start ==
    /\ s58.pc \in {"new", "done", "failed"}
    /\ s58.runs < MaxS58Runs
    /\ \E b \in 1..MaxBatchSize :
          s58' = [s58 EXCEPT !.pc = "check", !.runs = @ + 1, !.archive = <<>>,
                             !.batch_size = b, !.idx = 0,
                             !.flattened_data = <<>>, !.batch_count = 0,
                             !.total_rows_processed = 0, !.returned = -1,
                             !.loaded = <<>>, !.events = <<>>,
                             !.failed_at = "none"]
    /\ UNCHANGED S58Rest

\* check_if_initial_load: COUNT(*) = 0, and True when the query raises
S58CheckInitial ==
    /\ s58.pc = "check"
    /\ \E raises \in BOOLEAN :
          s58' = [s58 EXCEPT !.is_initial_load =
                                 IF raises THEN TRUE ELSE s58.dimension = {},
                             !.pc = "clear"]
    /\ UNCHANGED S58Rest

\* clear_staging_table: TRUNCATE staging, before the download and after the
\* merge
S58ClearStaging ==
    /\ s58.pc \in {"clear", "clear2"}
    /\ s58' = [s58 EXCEPT !.staging = <<>>,
                          !.events = Append(@, "clear"),
                          !.pc = IF s58.pc = "clear" THEN "get" ELSE "done"]
    /\ UNCHANGED S58Rest

\* requests.get answers 200
S58Get ==
    /\ s58.pc = "get"
    /\ s58' = [s58 EXCEPT !.pc = "entries"]
    /\ UNCHANGED S58Rest

\* clear_staging_table raises, or the GET does not answer 200
S58StepRaises ==
    /\ s58.pc \in {"clear", "get", "clear2"}
    /\ s58' = [s58 EXCEPT !.failed_at = s58.pc, !.pc = "failed"]
    /\ UNCHANGED S58Rest

\* insert_table_to_motherduck returned: the batch is in the staging table
S58Appended(r, batch) ==
    [r EXCEPT !.staging = @ \o [i \in DOMAIN batch |-> r.archive[batch[i]]],
              !.loaded = Append(@, batch),
              !.events = Append(@, "batch"),
              !.total_rows_processed = @ + Len(batch),
              !.flattened_data = <<>>,
              !.batch_count = 0]

\* a variant of the loop body that loads at batch_count > batch_size
S58EntryLateFlush ==
    /\ s58.pc = "entries"
    /\ s58.idx < MaxItems
    /\ \E item \in S58Items :
       LET k == s58.idx + 1
           taken == [s58 EXCEPT !.archive = Append(@, item),
                                !.idx = k,
                                !.flattened_data = Append(@, k),
                                !.batch_count = @ + 1]
       IN IF item = Unparsable
          THEN s58' = [s58 EXCEPT !.archive = Append(@, item), !.idx = k,
                                  !.failed_at = "entry", !.pc = "failed"]
          ELSE IF taken.batch_count > s58.batch_size
          THEN \E ok \in BOOLEAN :
                  s58' = IF ok THEN S58Appended(taken, taken.flattened_data)
                         ELSE [taken EXCEPT !.failed_at = "batch",
                                            !.pc = "failed"]
          ELSE s58' = taken
    /\ UNCHANGED S58Rest

\* batch_processor, one pass of the for loop: stream_unzip hands over the
\* next entry of the archive; join its chunks, parse, append, and load the
\* batch when batch_count >= batch_size
S58Entry ==
    /\ s58.pc = "entries"
    /\ s58.idx < MaxItems
    /\ \E item \in S58Items :
       LET k == s58.idx + 1
           taken == [s58 EXCEPT !.archive = Append(@, item),
                                !.idx = k,
                                !.flattened_data = Append(@, k),
                                !.batch_count = @ + 1]
       IN IF item = Unparsable
          THEN s58' = [s58 EXCEPT !.archive = Append(@, item), !.idx = k,
                                  !.failed_at = "entry", !.pc = "failed"]
          ELSE IF taken.batch_count >= s58.batch_size
          THEN \E ok \in BOOLEAN :
                  s58' = IF ok THEN S58Appended(taken, taken.flattened_data)
                         ELSE [taken EXCEPT !.failed_at = "batch",
                                            !.pc = "failed"]
          ELSE s58' = taken
    /\ UNCHANGED S58Rest

\* a variant of the end of batch_processor that logs a failed final load
\* and returns
S58FinalBatchSwallows ==
    /\ s58.pc = "entries"
    /\ \E ok \in BOOLEAN :
          LET r == IF s58.flattened_data # <<>> /\ ok
                   THEN S58Appended(s58, s58.flattened_data) ELSE s58
          IN s58' = [r EXCEPT !.returned = r.total_rows_processed,
                              !.pc = "merge"]
    /\ UNCHANGED S58Rest

\* batch_processor after the loop (the archive has no further entry): load
\* what is left and return the total
S58FinalBatch ==
    /\ s58.pc = "entries"
    /\ IF s58.flattened_data = <<>>
       THEN s58' = [s58 EXCEPT !.returned = s58.total_rows_processed,
                               !.pc = "merge"]
       ELSE \E ok \in BOOLEAN :
               IF ok
               THEN LET r == S58Appended(s58, s58.flattened_data)
                    IN s58' = [r EXCEPT !.returned = r.total_rows_processed,
                                        !.pc = "merge"]
               ELSE s58' = [s58 EXCEPT !.failed_at = "batch", !.pc = "failed"]
    /\ UNCHANGED S58Rest

\* ---- get_scd_sql -----------------------------------------------------------
StagedRefs(st) == {st[i].ref : i \in DOMAIN st}

\* the rn = 1 row of each reference number: its latest event_time
Latest(st) ==
    {[ref |-> x,
      event_time |-> CHOOSE t \in {st[i].event_time : i \in DOMAIN st} :
                        /\ \E i \in DOMAIN st : st[i].ref = x /\ st[i].event_time = t
                        /\ \A i \in DOMAIN st : st[i].ref = x => st[i].event_time <= t]
     : x \in StagedRefs(st)}

\* nextval('s58_seq') for the rows of one INSERT ... SELECT
RefRank(x) == IF x = "A" THEN 1 ELSE 2

DimensionRows(dim, rows) ==
    {[surrogate_key |-> Cardinality(dim)
                          + Cardinality({m \in rows : RefRank(m.ref) <= RefRank(l.ref)}),
      ref |-> l.ref, event_time |-> l.event_time, is_current |-> TRUE]
     : l \in rows}

\* "initial_load"
InitialLoad(dim, st) == dim \cup DimensionRows(dim, Latest(st))

\* "mark_changed"
MarkChanged(dim, st) ==
    {IF d.is_current /\ \E l \in Latest(st) :
                            l.ref = d.ref /\ l.event_time > d.event_time
     THEN [d EXCEPT !.is_current = FALSE] ELSE d
     : d \in dim}

\* "insert_new_changed"
InsertNewChanged(dim, st) ==
    dim \cup DimensionRows(dim,
        {l \in Latest(st) :
            \/ ~\E d \in dim : d.ref = l.ref
            \/ \A d \in dim : d.ref = l.ref => l.event_time > d.event_time})

\* process_scd_type2: one INSERT on an initial load, otherwise the UPDATE
\* and then the INSERT; a statement that raises ends the function
S58Merge ==
    /\ s58.pc = "merge"
    /\ \E done \in 0..2 :
          LET dim == s58.dimension
              st == s58.staging
              statements == IF s58.is_initial_load THEN 1 ELSE 2
              after == IF done = 0 THEN dim
                       ELSE IF s58.is_initial_load THEN InitialLoad(dim, st)
                       ELSE IF done = 1 THEN MarkChanged(dim, st)
                       ELSE InsertNewChanged(MarkChanged(dim, st), st)
          IN /\ done <= statements
             /\ s58' = [s58 EXCEPT !.dimension = after,
                                   !.events = Append(@, "merge"),
                                   !.failed_at = IF done = statements
                                                 THEN "none" ELSE "merge",
                                   !.pc = IF done = statements
                                          THEN "clear2" ELSE "failed"]
    /\ UNCHANGED S58Rest

S58Next ==
    \/ S58Start
    \/ S58CheckInitial
    \/ S58ClearStaging
    \/ S58Get
    \/ S58StepRaises
    \/ S58Entry
    \/ S58FinalBatch
    \/ S58Merge

SpecS58 == S58Init /\ [][S58Next]_vars

\* ---- Section 58: properties ------------------------------------------------
CountOf(seq, x) == Cardinality({i \in DOMAIN seq : seq[i] = x})

PositionsOf(seq, x) == {i \in DOMAIN seq : seq[i] = x}

EntryNumbers(n) == [i \in 1..n |-> i]

\* C32: in a Section 58 run the staging table is cleared before any batch is
\* loaded; the merge is executed only after every batch of the archive has
\* been appended to staging; staging is cleared again after the merge; and
\* when the load fails the merge is not executed in that run.
C32_ClearLoadMergeClear ==
    s58.pc # "idle" =>
        /\ s58.events # <<>> => s58.events[1] = "clear"
        /\ \A i \in PositionsOf(s58.events, "merge") :
              /\ Flatten(s58.loaded) = EntryNumbers(Len(s58.archive))
              /\ \A j \in PositionsOf(s58.events, "batch") : j < i
              /\ CountOf(s58.events, "merge") = 1
        /\ s58.pc = "done" =>
              /\ s58.events[Len(s58.events)] = "clear"
              /\ s58.events[Len(s58.events) - 1] = "merge"
              /\ s58.staging = <<>>
        /\ s58.failed_at \in {"clear", "get", "entry", "batch"} =>
              CountOf(s58.events, "merge") = 0

C32_Witness ==
    /\ s58.pc = "done"
    /\ s58.events = <<"clear", "batch", "batch", "merge", "clear">>
    /\ s58.dimension # {}

\* C33: when no entry fails to parse and no batch fails to load, every entry
\* of the archive is in exactly one loaded batch, in archive order, each
\* batch except the last has exactly batch_size items and the returned total
\* is the number of entries; when an entry or a batch fails, batch_processor
\* raises and no later entry is loaded.
C33_BatchProcessor ==
    s58.pc # "idle" =>
        /\ s58.returned # -1 =>
              /\ Flatten(s58.loaded) = EntryNumbers(Len(s58.archive))
              /\ \A b \in DOMAIN s58.loaded :
                    /\ b < Len(s58.loaded) => Len(s58.loaded[b]) = s58.batch_size
                    /\ Len(s58.loaded[b]) \in 1..s58.batch_size
              /\ s58.returned = Len(s58.archive)
        /\ s58.failed_at \in {"entry", "batch"} =>
              /\ s58.returned = -1
              /\ s58.pc = "failed"
              /\ \E n \in 0..(s58.idx - 1) : Flatten(s58.loaded) = EntryNumbers(n)
              /\ Len(s58.staging) = Len(Flatten(s58.loaded))

C33_Witness ==
    /\ s58.returned = 3
    /\ s58.batch_size = 2
    /\ s58.loaded = <<(<<1, 2>>), (<<3>>)>>

CurrentRows(x) == {d \in s58.dimension : d.ref = x /\ d.is_current}

\* C38: after any sequence of Section 58 runs, failed steps included, the
\* dimension table holds at most one row with is_current = TRUE for each
\* section_58_reference_number.
C38_AtMostOneCurrentRow ==
    s58.pc # "idle" =>
        \A x \in {"A", "B"} : Cardinality(CurrentRows(x)) <= 1

\* ==== header validation and the positional load ============================
\* One header line of an NHS prescriptions file against the template
\* (expected_columns, an ordered dict), and the first data row loaded with
\* INSERT INTO t SELECT * FROM temp_df.  A cell is tagged with the header
\* name it stood under and the number of its field.
MaxHeaderLen == 4

HeaderNames == {"a", "b", "c"}

\* expected_columns.keys(), in the order of the table's columns
Template == <<"a", "b">>

HeaderInit ==
    /\ RunIdle
    /\ loader = LoaderIdle
    /\ reader = ReaderIdle
    /\ zip = ZipIdle
    /\ store = StoreIdle
    /\ column = ColumnIdle
    /\ s58 = S58Idle
    /\ aggr = AggrIdle
    /\ \E h \in SeqsUpTo(HeaderNames, MaxHeaderLen) :
          /\ h # <<>>
          /\ hdr = [pc |-> "header", header |-> h, is_valid |-> FALSE,
                    columns |-> <<>>, table_row |-> <<>>]

HdrRest == <<runVars, loader, reader, zip, store, column, s58, aggr>>

\* the keys of dict(zip(header, values)), which are the columns of
\* pd.DataFrame(row_buffer): the header's names in order of first occurrence
RECURSIVE FirstOccurrences(_, _)
FirstOccurrences(header, seen) ==
    IF header = <<>> THEN <<>>
    ELSE IF Head(header) \in seen THEN FirstOccurrences(Tail(header), seen)
    ELSE <<Head(header)>> \o FirstOccurrences(Tail(header), seen \cup {Head(header)})

FrameColumns(header) == FirstOccurrences(header, {})

\* the fields of the data row under this header
TaggedValues(header) ==
    [i \in DOMAIN header |-> [declared |-> header[i], field |-> i]]

\* the header is parsed and validated; "raise ValueError" when not valid
HdrValidate ==
    /\ hdr.pc = "header"
    /\ LET v == ValidateColumnNames(hdr.header, Range(Template))
       IN hdr' = [hdr EXCEPT !.is_valid = v.valid,
                             !.pc = IF v.valid THEN "accepted" ELSE "rejected"]
    /\ UNCHANGED HdrRest

\* the first data row becomes a one-row frame and is loaded with
\* INSERT INTO t SELECT * FROM temp_df: the frame's j-th column goes to the
\* table's j-th column; a frame of another width is a binder error
HdrLoad ==
    /\ hdr.pc = "accepted"
    /\ LET row_dict == RowDict(hdr.header, TaggedValues(hdr.header))
           columns == FrameColumns(hdr.header)
       IN IF Len(columns) = Len(Template)
          THEN hdr' = [hdr EXCEPT !.columns = columns,
                                  !.table_row = [j \in DOMAIN Template |->
                                                    row_dict[columns[j]]],
                                  !.pc = "loaded"]
          ELSE hdr' = [hdr EXCEPT !.columns = columns, !.pc = "load_error"]
    /\ UNCHANGED HdrRest

HeaderNext ==
    \/ HdrValidate
    \/ HdrLoad

SpecHeader == HeaderInit /\ [][HeaderNext]_vars

\* C34: whenever validate_column_names accepts a header, the header lists
\* each template column exactly once and in the template's order, so the
\* positional load puts every value in the column it was declared for.
C34_AcceptedHeaderIsTemplate ==
    /\ hdr.pc \in {"accepted", "loaded"} => hdr.header = Template
    /\ hdr.pc = "loaded" =>
          \A j \in DOMAIN Template :
              /\ hdr.table_row[j].declared = Template[j]
              /\ hdr.table_row[j].field = j

\* ==== a loader call on a connection whose release call fails ===============
\* SpecLoader with one more input: conn.unregister raises ("raises") or not
\* ("ok") throughout the call.
ReleaseInit ==
    /\ RunIdle
    /\ reader = ReaderIdle
    /\ RestIdle
    /\ \E v \in Variants, c \in BOOLEAN, k \in ErrKinds, u \in {"ok", "raises"} :
          loader = [LoaderIdle EXCEPT !.variant = v, !.conn = c, !.kind = k,
                                      !.release = u, !.pc = "start"]

\* shared loader, except clause: conn.unregister("temp_df") raises; the new
\* error leaves the except clause through the finally clause, whose own
\* unregister error is dropped, and the call ends with the release error
LExceptReleaseRaises ==
    /\ loader.pc = "except"
    /\ ReleaseRaisesInExcept
    /\ loader' = [loader EXCEPT !.release_raised = TRUE, !.result = "raise",
                                !.pc = "exit"]
    /\ UNCHANGED <<runVars, reader, rest>>

ReleaseNext ==
    \/ LoaderNext
    \/ LExceptReleaseRaises

SpecRelease == ReleaseInit /\ [][ReleaseNext]_vars

\* C36: in insert_into_motherduck a failure of conn.unregister never changes
\* the retry behaviour: a call whose attempts all fail still makes all 3
\* attempts, and the error it raises is the error of a load attempt, never
\* the error of the release call.
C36_ReleaseFailureKeepsRetries ==
    (loader.variant = "shared" /\ loader.release = "raises" /\ loader.pc = "exit") =>
        /\ AllFailed(loader) => Len(loader.outcomes) = 3
        /\ loader.result = "raise" =>
              /\ ~loader.release_raised
              /\ loader.raised = Len(loader.outcomes)

\* ==== NHS prescriptions: staging and aggregated tables =====================
\* process_nhs_prescriptions over its list of files.  File i is streamed
\* into its staging table, which exists beforehand; the aggregated table is
\* then created from it and the staging table dropped.  With a config the
\* block runs inside metadata_tracker and an exception ends the function;
\* without one the loop continues with the next file.
MaxFiles == 2

AggregateInit ==
    /\ RunIdle
    /\ loader = LoaderIdle
    /\ reader = ReaderIdle
    /\ zip = ZipIdle
    /\ store = StoreIdle
    /\ column = ColumnIdle
    /\ s58 = S58Idle
    /\ hdr = HdrIdle
    /\ \E n \in 1..MaxFiles, config \in BOOLEAN, create \in BOOLEAN,
          drop \in BOOLEAN :
          aggr = [pc |-> "stream", files |-> n, i |-> 1, config |-> config,
                  create_aggregated |-> create, drop_staging |-> drop,
                  staging |-> [f \in 1..n |-> "present"],
                  aggregated |-> [f \in 1..n |-> "none"],
                  outcome |-> [f \in 1..n |-> "none"]]

AggrRest == <<runVars, loader, reader, zip, store, column, s58, hdr>>

\* the for loop goes to the next (csv_url, staging_table_name) pair
NextFile(a) ==
    IF a.i < a.files THEN [a EXCEPT !.i = @ + 1, !.pc = "stream"]
    ELSE [a EXCEPT !.pc = "returned"]

\* an Exception in the block of file i: "raise" with a config, "continue"
\* without
FileRaises(a, what) ==
    LET b == [a EXCEPT !.outcome[a.i] = what]
    IN IF a.config THEN [b EXCEPT !.pc = "raised"] ELSE NextFile(b)

\* process_streaming_csv returns or raises
AggrStream ==
    /\ aggr.pc = "stream"
    /\ \E ok \in BOOLEAN :
          aggr' = IF ok THEN [aggr EXCEPT !.pc = "aggregate"]
                  ELSE FileRaises(aggr, "stream_raised")
    /\ UNCHANGED AggrRest

\* create_aggregated = False: the staging table is the result
AggrKeepStaging ==
    /\ aggr.pc = "aggregate"
    /\ ~aggr.create_aggregated
    /\ aggr' = NextFile([aggr EXCEPT !.outcome[aggr.i] = "ok"])
    /\ UNCHANGED AggrRest

AggrSteps == {"create", "count", "drop", "return"}

\* a variant of create_aggregated_table that drops the staging table right
\* after the CREATE, before the counts
AggrCreateDropsEarly ==
    /\ aggr.pc = "aggregate"
    /\ aggr.create_aggregated
    /\ \E stops \in AggrSteps :
          /\ stops = "drop" => aggr.drop_staging
          /\ LET created == [aggr EXCEPT !.aggregated[aggr.i] =
                                IF stops = "create" THEN @ ELSE "created"]
                 dropped == [created EXCEPT !.staging[aggr.i] =
                                IF stops # "create" /\ aggr.drop_staging
                                THEN "dropped" ELSE @]
             IN aggr' = IF stops = "return"
                        THEN NextFile([dropped EXCEPT !.outcome[aggr.i] = "ok"])
                        ELSE FileRaises(dropped, "aggregate_raised")
    /\ UNCHANGED AggrRest

\* create_aggregated_table: CREATE OR REPLACE TABLE ... AS SELECT from the
\* staging table, the two counts, DROP TABLE IF EXISTS when drop_staging;
\* "stops" is the statement that raises ("return": none does)
AggrCreate ==
    /\ aggr.pc = "aggregate"
    /\ aggr.create_aggregated
    /\ \E stops \in AggrSteps :
          /\ stops = "drop" => aggr.drop_staging
          /\ LET created == [aggr EXCEPT !.aggregated[aggr.i] =
                                IF stops = "create" THEN @ ELSE "created"]
                 dropped == [created EXCEPT !.staging[aggr.i] =
                                IF stops = "return" /\ aggr.drop_staging
                                THEN "dropped" ELSE @]
             IN aggr' = IF stops = "return"
                        THEN NextFile([dropped EXCEPT !.outcome[aggr.i] = "ok"])
                        ELSE FileRaises(dropped, "aggregate_raised")
    /\ UNCHANGED AggrRest

AggregateNext ==
    \/ AggrStream
    \/ AggrKeepStaging
    \/ AggrCreate

SpecAggregate == AggregateInit /\ [][AggregateNext]_vars

\* C37: the staging table of a file is dropped only after the aggregated
\* table has been created from it in the same run; when streaming or
\* aggregation raises it is not dropped; and with drop_staging = False it is
\* never dropped.
C37_StagingDroppedAfterAggregation ==
    aggr.pc # "idle" =>
        \A f \in 1..aggr.files :
            /\ aggr.staging[f] = "dropped" =>
                  /\ aggr.aggregated[f] = "created"
                  /\ aggr.outcome[f] = "ok"
                  /\ aggr.drop_staging
            /\ aggr.outcome[f] \in {"stream_raised", "aggregate_raised"} =>
                  aggr.staging[f] = "present"

C37_Witness ==
    /\ aggr.files = 2
    /\ aggr.staging[1] = "dropped"
    /\ aggr.aggregated[1] = "created"
    /\ aggr.outcome[2] = "aggregate_raised"
    /\ aggr.aggregated[2] = "created"
    /\ aggr.staging[2] = "present"

====
